---------------------------- MODULE Spec2Model ----------------------------
(***************************************************************************)
(* directus-steam-sync: the multi-source reconciliation and caching        *)
(* pipeline of paced/satchel, its cache store and its remote upsert sink.  *)
(*                                                                         *)
(* Revisions modelled: the pipeline of src/unnamed/part_005                *)
(* (processSteamGames / processSteamGamesForSingleUser), the cache store   *)
(* and the statistics layer of handlers/steam/caches.ts, the mapper of     *)
(* src/unnamed/part_009, the record types of src/unnamed/part_006, the     *)
(* estimate layer of handlers/steam/index.ts (processHltbDataForSteamGames,*)
(* captureHltbAuthToken), the revision of processSteamGames with the skip  *)
(* option of the same file, the name-mismatch ledgers of caches.ts, the    *)
(* sink of handlers/directus.ts, and the Home page of the swiper app       *)
(* (apps/swiper/pages/index/+Page.tsx).                                    *)
(***************************************************************************)
EXTENDS Integers, Sequences, FiniteSets, TLC

(***************************************************************************)
(* Bounds of the model.                                                    *)
(***************************************************************************)
\* externalIds (Steam app ids) range over 1..MaxAppId
MaxAppId == 2
\* payload versions the metadata source can answer with
MaxVersion == 2
\* review counts 0..MaxCount are enumerated in full (plus BoundaryCounts)
MaxCount == 60
\* the sink is handed at most MaxSinkRecords records
MaxSinkRecords == 5
\* an account owns at most MaxOwned items (its list may repeat an id)
MaxOwned == 2
\* the accounts processed over all the runs of a behaviour
MaxPasses == 2
\* the owned items of the account whose estimate layer meets its failure ceiling
MaxLayerItems == 11
\* the requests the estimate source answers while that account is processed
MaxAnswers == 2
\* the failures of the environment (a request or a write that fails, an answer
\* that is not well formed) over a behaviour
MaxFaults == 1
\* the accounts of a run whose merge is checked on its own
MaxAccounts == 3
\* a remote store answers a page request with at most MaxPageItems items
MaxPageItems == 2
\* the time a pending token capture is looked at again, in milliseconds
CaptureTickMs == 10000

AppIds == 1..MaxAppId
Versions == 1..MaxVersion

(***************************************************************************)
(* Program constants.                                                      *)
(***************************************************************************)
REVIEWS_TOO_FEW_THRESHOLD == 10
REVIEWS_VERY_THRESHOLD == 50
REVIEWS_OVERWHELMINGLY_THRESHOLD == 500

(***************************************************************************)
(* Records.                                                                *)
(*                                                                         *)
(* An optional field that is absent (undefined) is 0 for a timestamp or a  *)
(* number, "undefined" for a string; a JSON null is "null".                *)
(***************************************************************************)
\* the transient per-run layer being absent (basicData undefined)
NoBasicData == [isAdmin |-> FALSE, appId |-> 0, hours |-> 0, lastPlayedUnix |-> 0]

\* a record as the identity layer produces it: no statistics, no estimate
IdentityRecord(appId, name, basicData) ==
  [ basicData |-> basicData,
    appId |-> appId,
    name |-> name,
    spy_update_timestamp |-> 0,
    review_category |-> "undefined",
    total_positive_reviews |-> 0,
    total_negative_reviews |-> 0,
    total_reviews |-> 0,
    last_hltb_update_timestamp |-> 0,
    hltb_name |-> "undefined",
    hltb_hours |-> 0,
    hltb_hours_extra |-> 0,
    hltb_hours_completionist |-> 0 ]

SeqRange(s) == { s[i] : i \in DOMAIN s }

AppIdsOf(s) == { s[i].appId : i \in DOMAIN s }

(***************************************************************************)
(* Array.prototype.sort((a, b) => a.appId - b.appId): a stable sort.       *)
(***************************************************************************)
InsertByAppId(sorted, r) ==
  LET k == Cardinality({ i \in DOMAIN sorted : sorted[i].appId <= r.appId })
  IN SubSeq(sorted, 1, k) \o <<r>> \o SubSeq(sorted, k + 1, Len(sorted))

RECURSIVE SortByAppId(_)
SortByAppId(s) ==
  IF s = <<>> THEN <<>>
  ELSE InsertByAppId(SortByAppId(SubSeq(s, 1, Len(s) - 1)), s[Len(s)])

InsertNumber(sorted, n) ==
  LET k == Cardinality({ i \in DOMAIN sorted : sorted[i] <= n })
  IN SubSeq(sorted, 1, k) \o <<n>> \o SubSeq(sorted, k + 1, Len(sorted))

RECURSIVE SortNumbers(_)
SortNumbers(s) ==
  IF s = <<>> THEN <<>>
  ELSE InsertNumber(SortNumbers(SubSeq(s, 1, Len(s) - 1)), s[Len(s)])

(***************************************************************************)
(* determineReviewCategory.                                                *)
(*                                                                         *)
(* positivePercentage = (totalPositive / totalReviews) * 100 is a double;  *)
(* for the counts of the model (and every total below 2^31) the test       *)
(* positivePercentage >= k gives what the exact comparison                 *)
(* 100 * totalPositive >= k * totalReviews gives.                          *)
(***************************************************************************)
\* a mutant: the 80% bound taken as exclusive
PercentageAbove(totalPositive, totalReviews, k) ==
  IF k = 80 THEN 100 * totalPositive > k * totalReviews
  ELSE 100 * totalPositive >= k * totalReviews

PercentageAtLeast(totalPositive, totalReviews, k) ==
  100 * totalPositive >= k * totalReviews

determineReviewCategory(totalPositive, totalNegative) ==
  LET totalReviews == totalPositive + totalNegative
  IN IF totalReviews < REVIEWS_TOO_FEW_THRESHOLD THEN "null"
     ELSE IF /\ totalReviews >= REVIEWS_OVERWHELMINGLY_THRESHOLD
             /\ PercentageAtLeast(totalPositive, totalReviews, 95)
          THEN "Overwhelmingly Positive"
     ELSE IF PercentageAtLeast(totalPositive, totalReviews, 80)
          THEN IF totalReviews >= REVIEWS_VERY_THRESHOLD
               THEN "Very Positive"
               ELSE "Positive"
     ELSE IF PercentageAtLeast(totalPositive, totalReviews, 70)
          THEN "Mostly Positive"
     ELSE IF PercentageAtLeast(totalPositive, totalReviews, 40)
          THEN "Mixed"
     ELSE IF PercentageAtLeast(totalPositive, totalReviews, 20)
          THEN "Mostly Negative"
     ELSE IF totalReviews >= REVIEWS_OVERWHELMINGLY_THRESHOLD
          THEN "Overwhelmingly Negative"
     ELSE IF totalReviews >= REVIEWS_VERY_THRESHOLD
          THEN "Very Negative"
     ELSE "Negative"

(***************************************************************************)
(* Cache store: updateSteamGameInfoCache.                                  *)
(***************************************************************************)
\* a mutant: the text of the file is taken as it is
loadIgnoringStatus(status, content) == content

\* loadGameInfoCache, loadKnownDeletedGamesCache: readFile or JSON.parse throws
\* on a file that is missing or does not parse, and the catch block answers []
loadCacheFile(status, content) == IF status = "ok" THEN content ELSE <<>>

\* loadDissimilarGamesCache, asked whether the ledger holds a matching entry
\* with status "no": readFile throws on a missing file and no line of a file
\* that does not parse matches, and the map stays empty
loadDissimilarGamesCache(status, saysNo) == status = "ok" /\ saysNo

\* writeFile(path, text) on a file of the given status
Written(status, file, ok) == IF ok THEN [status EXCEPT ![file] = "ok"] ELSE status

\* a mutant: the record is written as it is held in memory
KeepBasicData(gameInfo) == gameInfo

\* const { basicData, ...rest } = gameInfo; return rest
StripBasicData(gameInfo) == [gameInfo EXCEPT !.basicData = NoBasicData]

\* a mutant: the existing records take precedence over the new ones
CombineExistingFirst(existingGameInfos, gameInfos) ==
  LET existingKeys == AppIdsOf(existingGameInfos)
  IN existingGameInfos \o SelectSeq(gameInfos, LAMBDA g : g.appId \notin existingKeys)

\* a mutant: the new records are left out
CombineExistingOnly(existingGameInfos, gameInfos) == existingGameInfos

\* combinedGameInfos: the new records, then the existing ones with no new record
CombineGameInfos(existingGameInfos, gameInfos) ==
  LET newGameInfosKeys == AppIdsOf(gameInfos)
  IN gameInfos \o SelectSeq(existingGameInfos, LAMBDA g : g.appId \notin newGameInfosKeys)

\* a mutant: the combined records are written in the order they were combined
GameInfoCacheContentUnsorted(existingGameInfos, gameInfos) ==
  LET combinedGameInfos == CombineGameInfos(existingGameInfos, gameInfos)
  IN [ i \in DOMAIN combinedGameInfos |-> StripBasicData(combinedGameInfos[i]) ]

\* a mutant: the new records are written without the existing ones
GameInfoCacheContentNewOnly(existingGameInfos, gameInfos) ==
  LET uniqueGameInfos == SortByAppId(gameInfos)
  IN [ i \in DOMAIN uniqueGameInfos |-> StripBasicData(uniqueGameInfos[i]) ]

\* the collection updateSteamGameInfoCache hands to writeFile
GameInfoCacheContent(existingGameInfos, gameInfos) ==
  LET uniqueGameInfos == SortByAppId(CombineGameInfos(existingGameInfos, gameInfos))
  IN [ i \in DOMAIN uniqueGameInfos |-> StripBasicData(uniqueGameInfos[i]) ]


(***************************************************************************)
(* Remote upsert sink (handlers/directus.ts).                              *)
(***************************************************************************)
DIRECTUS_MAX_PAGES == 999
DIRECTUS_ITEMS_PAGE_SIZE == 1000

\* Array.prototype.slice on the remote collection, which is kept in id order
SliceSeq(s, offset, limit) ==
  SubSeq(s, offset + 1, IF offset + limit < Len(s) THEN offset + limit ELSE Len(s))

\* the offset fetchExistingGamesPage asks for
PageOffset(page) == (page - 1) * DIRECTUS_ITEMS_PAGE_SIZE

\* readItems(collection, { offset, limit }) for the given page
fetchExistingGamesPage(remoteItems, page) ==
  SliceSeq(remoteItems, PageOffset(page), DIRECTUS_ITEMS_PAGE_SIZE)

\* a mutant: only an empty page ends the loop of fetchExistingGames
LoopEndsOnEmptyPage(response, page) == response = <<>>

\* the loop of fetchExistingGames is over after this page: the page is empty
\* (break), or page++ leaves the range page <= DIRECTUS_MAX_PAGES
LoopEnds(response, page) == response = <<>> \/ page = DIRECTUS_MAX_PAGES

\* existingGames[record.id] = record for each record of the page, in order: a
\* record takes the place of the one the index held under its id
IndexedById(existing, response) ==
  { r \in existing : \A i \in DOMAIN response : response[i].id # r.id } \cup
  { response[i] : i \in { j \in DOMAIN response :
                            \A k \in DOMAIN response :
                              response[k].id = response[j].id => k <= j } }

\* a mutant: the Directus item id is assumed to be the Steam app id
MapByItemId(existing) ==
  [ k \in { r.id : r \in existing } |-> CHOOSE r \in existing : r.id = k ]

\* map[item.Steam_ID] = item, over Object.values(existingGames), which lists the
\* items in ascending id order: of two items with one Steam_ID the later one stays
createSteamAppIdToDirectusItemIdMap(existing) ==
  [ k \in { r.Steam_ID : r \in existing } |->
      CHOOSE r \in existing :
        /\ r.Steam_ID = k
        /\ \A q \in existing : q.Steam_ID = k => q.id <= r.id ]

\* steamAppIdToDirectusItemIdMap[gameData.appId]?.id, 0 when there is none
DirectusItemIdOf(map, appId) == IF appId \in DOMAIN map THEN map[appId].id ELSE 0

\* a mutant: a failed write is logged and the loop goes on
NextAfterWriteContinue(ok, isLast) == IF isLast THEN "sinkDone" ELSE "upsert"

\* process.exit(1) in either catch block; otherwise the loop goes on
NextAfterWrite(ok, isLast) ==
  IF ~ok THEN "exited" ELSE IF isLast THEN "sinkDone" ELSE "upsert"

\* the keys of the remote schema the sink writes
ProjectionFields ==
  {"Name", "Developers", "Publishers", "Marketplace", "URL", "Thumbnail",
   "Description", "Tags", "Steam_ID"}

\* the object the sink hands to updateItem and createItem: the fixed
\* projection of a record onto the remote schema, under the key of each field,
\* and the collection's name under the key "collection"
DirectusData(gameData) ==
  [ collection |-> "Game",
    Name |-> gameData.name,
    Developers |-> gameData.developers,
    Publishers |-> gameData.publishers,
    Marketplace |-> "Steam",
    URL |-> <<"https://store.steampowered.com/app", gameData.appId>>,
    Thumbnail |-> gameData.header_image,
    Description |-> gameData.short_description,
    Tags |-> gameData.genres \o gameData.categories,
    Steam_ID |-> gameData.appId ]

VARIABLES
  pc,                 \* where the program is
  exitCode,           \* 0, or the code process.exit was called with
  \* determineReviewCategory
  totalPositive, totalNegative, review_category,
  \* updateSteamGameInfoCache called on its own
  existingGameInfos, newGameInfos,
  \* the files under out/
  cacheFile,          \* steam-game-info-cache.json
  deletedFile,        \* steam-known-deleted-games-cache.json
  fileStatus,         \* of each file: "missing", "corrupt" (it does not parse) or "ok"
  \* the remote store and upsertAllSteamGames
  remote,             \* the Game collection: a sequence of items in id order
  steamGameData, page, existingGames, steamAppIdToDirectusItemIdMap,
  upsertIdx,
  sinkLog,            \* every create or update issued, in order
  \* processSteamGames
  useCache, targetIds, userIdx, combinedGames, uniqueGames,
  \* processSteamGamesForSingleUser
  basicSteamGameInfos, cachedGameInfos, knownDeletedAppIds, gameInfos,
  failedGameInfos, itemIdx,
  failedAttempts,     \* of the estimate layer
  sleptMs,            \* what the estimate layer slept before its last request
  \* what the run has asked of the network
  ownedCalls, storeRequests, spyRequests, tokenCalls, hltbRequests,
  deniedAtStart,      \* the ids in the denylist file when the run began
  cachedAtStart,      \* the ids in the enriched cache file when the run began
  layersAtStart,      \* the ids whose cached record had each layer when the run began
  clock,              \* what new Date().getTime() returns: the number of the run
  passesLeft,         \* the accounts that may still be processed
  faultsLeft,         \* the failures the environment may still produce
  world,              \* what each source has answered, where its answers are stable
  prevResult          \* what the previous run returned

reviewVars == <<totalPositive, totalNegative, review_category>>
mergeVars == <<existingGameInfos, newGameInfos>>
fileVars == <<cacheFile, deletedFile, fileStatus>>
sinkVars == <<remote, steamGameData, page, existingGames,
              steamAppIdToDirectusItemIdMap, upsertIdx, sinkLog>>

runVars == <<useCache, targetIds, userIdx, combinedGames, uniqueGames>>
userVars == <<basicSteamGameInfos, cachedGameInfos, knownDeletedAppIds, gameInfos,
              failedGameInfos, itemIdx, failedAttempts, sleptMs>>
callVars == <<ownedCalls, storeRequests, spyRequests, tokenCalls, hltbRequests>>
pipeVars == <<runVars, userVars, callVars, deniedAtStart, cachedAtStart, layersAtStart,
              clock>>
envVars == <<passesLeft, faultsLeft, world, prevResult>>

vars == <<pc, exitCode, reviewVars, mergeVars, fileVars, sinkVars, pipeVars, envVars>>

ReviewIdle == totalPositive = 0 /\ totalNegative = 0 /\ review_category = "undefined"
MergeIdle == existingGameInfos = <<>> /\ newGameInfos = <<>>
\* the files under out/ the pipeline reads: the enriched cache, the denylist
\* and the name-mismatch ledger
CacheFiles == {"gameInfo", "knownDeleted", "dissimilar"}
FileStatuses == {"missing", "corrupt", "ok"}
NoLayers == [spy |-> {}, hltb |-> {}]
FilesEmpty ==
  /\ cacheFile = <<>>
  /\ deletedFile = <<>>
  /\ fileStatus = [ f \in CacheFiles |-> "missing" ]
SinkIdle ==
  /\ remote = <<>>
  /\ steamGameData = <<>>
  /\ page = 1
  /\ existingGames = {}
  /\ steamAppIdToDirectusItemIdMap = <<>>
  /\ upsertIdx = 1
  /\ sinkLog = <<>>
NoRequests == [ id \in AppIds |-> 0 ]
RunIdle ==
  /\ useCache = TRUE
  /\ targetIds = <<>>
  /\ userIdx = 1
  /\ combinedGames = <<>>
  /\ uniqueGames = <<>>
UserIdle ==
  /\ basicSteamGameInfos = <<>>
  /\ cachedGameInfos = <<>>
  /\ knownDeletedAppIds = <<>>
  /\ gameInfos = <<>>
  /\ failedGameInfos = <<>>
  /\ itemIdx = 1
  /\ failedAttempts = 0
  /\ sleptMs = 0
CallsIdle ==
  /\ ownedCalls = 0
  /\ storeRequests = NoRequests
  /\ spyRequests = NoRequests
  /\ tokenCalls = 0
  /\ hltbRequests = NoRequests
PipeIdle ==
  /\ RunIdle /\ UserIdle /\ CallsIdle /\ deniedAtStart = {} /\ cachedAtStart = {}
  /\ layersAtStart = NoLayers
  /\ clock = 0
  /\ passesLeft = 0 /\ faultsLeft = 0 /\ world = <<>> /\ prevResult = <<>>

(***************************************************************************)
(* determineReviewCategory on every pair of counts of the model.           *)
(***************************************************************************)
BoundaryCounts == {61, 79, 80, 81, 99, 100, 101, 380, 399, 400, 401, 420, 474,
                   475, 476, 499, 500, 501}
Counts == (0..MaxCount) \cup BoundaryCounts

InitReview ==
  /\ pc = "review"
  /\ exitCode = 0
  /\ totalPositive \in Counts
  /\ totalNegative \in Counts
  /\ review_category = "undefined"
  /\ MergeIdle /\ FilesEmpty /\ SinkIdle /\ PipeIdle

\* gameInfo.review_category = determineReviewCategory(positive, negative)
Categorise ==
  /\ pc = "review"
  /\ review_category' = determineReviewCategory(totalPositive, totalNegative)
  /\ pc' = "reviewed"
  /\ UNCHANGED <<exitCode, totalPositive, totalNegative, mergeVars, fileVars, sinkVars, pipeVars>>

NextReview == Categorise /\ UNCHANGED envVars

SpecReview == InitReview /\ [][NextReview]_vars

(***************************************************************************)
(* updateSteamGameInfoCache on every pair of collections of the model.     *)
(***************************************************************************)
\* the sequences over S without a repeated element, of every length
RECURSIVE DistinctSeqs(_)
DistinctSeqs(S) ==
  IF S = {} THEN { <<>> }
  ELSE {<<>>} \cup UNION { { <<x>> \o t : t \in DistinctSeqs(S \ {x}) } : x \in S }

\* the owned-item reference of the account a record was produced for
SomeBasicData(appId) == [isAdmin |-> TRUE, appId |-> appId, hours |-> 10, lastPlayedUnix |-> 100]

\* collections with unique appIds: each record has one of the payload versions;
\* a record read from the cache file has no basicData, a fresh one has it
Collections(withBasicData) ==
  UNION { { [ i \in DOMAIN ids |->
                [ IdentityRecord(ids[i], v[ids[i]][1],
                                 IF withBasicData THEN SomeBasicData(ids[i]) ELSE NoBasicData)
                  EXCEPT !.spy_update_timestamp = IF v[ids[i]][2] THEN 1 ELSE 0 ] ]
            : v \in [AppIds -> Versions \X BOOLEAN] }
          : ids \in DistinctSeqs(AppIds) }

InitMerge ==
  /\ pc = "save"
  /\ exitCode = 0
  /\ existingGameInfos \in Collections(FALSE)
  /\ newGameInfos \in Collections(TRUE)
  /\ ReviewIdle /\ FilesEmpty /\ SinkIdle /\ PipeIdle

\* updateSteamGameInfoCache(existingGameInfos, gameInfos): the write may fail,
\* which is caught and logged
SaveGameInfoCache ==
  /\ pc = "save"
  /\ \E ok \in BOOLEAN :
       /\ cacheFile' = IF ok THEN GameInfoCacheContent(existingGameInfos, newGameInfos)
                       ELSE cacheFile
       /\ fileStatus' = Written(fileStatus, "gameInfo", ok)
       /\ pc' = IF ok THEN "saved" ELSE "saveFailed"
  /\ UNCHANGED <<exitCode, reviewVars, mergeVars, deletedFile, sinkVars, pipeVars>>

NextMerge == SaveGameInfoCache /\ UNCHANGED envVars

SpecMerge == InitMerge /\ [][NextMerge]_vars

(***************************************************************************)
(* upsertAllSteamGames.                                                    *)
(***************************************************************************)
\* one turn of the loop of fetchExistingGames, the page request answered with
\* response
FetchExistingGamesStep(response) ==
  /\ pc = "sinkFetch"
  /\ existingGames' = IndexedById(existingGames, response)
  /\ page' = IF LoopEnds(response, page) THEN page ELSE page + 1
  /\ UNCHANGED <<exitCode, reviewVars, mergeVars, fileVars, remote, steamGameData,
                 upsertIdx, sinkLog, pipeVars>>

\* fetchExistingGames: one page; an empty page ends the loop, as does the cap;
\* upsertAllSteamGames then builds its map from the index
FetchPage ==
  LET response == fetchExistingGamesPage(remote, page)
  IN /\ FetchExistingGamesStep(response)
     /\ IF LoopEnds(response, page)
        THEN /\ steamAppIdToDirectusItemIdMap' =
                  createSteamAppIdToDirectusItemIdMap(existingGames')
             /\ pc' = IF steamGameData = <<>> THEN "sinkDone" ELSE "upsert"
        ELSE /\ pc' = "sinkFetch"
             /\ UNCHANGED steamAppIdToDirectusItemIdMap

\* the fields of an item of the Game collection: its internal id, the fields
\* the sink writes and the field a human sets in the swiper app
GameFields == {"id", "Rank"} \cup ProjectionFields

\* the remote store after updateItem(collection, id, data): the store sets
\* every field of the item that data has a key for and leaves the others
UpdatedRemote(items, id, data) ==
  [ i \in DOMAIN items |->
      IF items[i].id = id
      THEN [ f \in DOMAIN items[i] |->
               IF f \in DOMAIN data THEN data[f] ELSE items[i][f] ]
      ELSE items[i] ]

\* the remote store after createItem(collection, data): a new internal id,
\* the fields data has no key for at their default
CreatedRemote(items, data) ==
  LET newId == IF items = <<>> THEN 1 ELSE items[Len(items)].id + 1
      fields == IF items = <<>> THEN GameFields ELSE DOMAIN items[1]
  IN Append(items, [ f \in fields |->
                       IF f = "id" THEN newId
                       ELSE IF f \in DOMAIN data THEN data[f] ELSE 0 ])

\* the ids of the remote items whose Steam_ID is appId
RemoteIdsOf(items, appId) == { items[i].id : i \in { j \in DOMAIN items : items[j].Steam_ID = appId } }

\* one iteration of the loop over steamGameData
UpsertOne ==
  /\ pc = "upsert"
  /\ upsertIdx <= Len(steamGameData)
  /\ LET gameData == steamGameData[upsertIdx]
         directusItemId == DirectusItemIdOf(steamAppIdToDirectusItemIdMap, gameData.appId)
         data == DirectusData(gameData)
         isLast == upsertIdx = Len(steamGameData)
     IN \E ok \in BOOLEAN :
          /\ sinkLog' = Append(sinkLog,
                               [ op |-> IF directusItemId # 0 THEN "update" ELSE "create",
                                 appId |-> gameData.appId,
                                 target |-> directusItemId,
                                 ok |-> ok,
                                 remoteIds |-> RemoteIdsOf(remote, gameData.appId) ])
          /\ remote' = IF ~ok THEN remote
                       ELSE IF directusItemId # 0
                            THEN UpdatedRemote(remote, directusItemId, data)
                            ELSE CreatedRemote(remote, data)
          /\ pc' = NextAfterWrite(ok, isLast)
          /\ exitCode' = IF pc' = "exited" THEN 1 ELSE exitCode
          /\ upsertIdx' = upsertIdx + 1
  /\ UNCHANGED <<reviewVars, mergeVars, fileVars, steamGameData, page, existingGames,
                 steamAppIdToDirectusItemIdMap, pipeVars>>

\* the ascending sequences over 1..n
RECURSIVE AscendingSeqs(_)
AscendingSeqs(n) ==
  IF n = 0 THEN { <<>> }
  ELSE AscendingSeqs(n - 1) \cup { Append(s, n) : s \in AscendingSeqs(n - 1) }

\* a record as the sink receives it: the identity layer's record with the
\* metadata fields the projection reads
SinkRecord(appId) ==
  IdentityRecord(appId, 1, SomeBasicData(appId)) @@
  [ developers |-> <<"dev">>, publishers |-> <<"pub">>, header_image |-> "img",
    short_description |-> "text", genres |-> <<"genre">>,
    categories |-> <<"category">> ]

\* an item of the remote store as an earlier sync and a human left it
RemoteItem(id, steamId, rank) ==
  [ id |-> id, Steam_ID |-> steamId, Rank |-> rank, Name |-> 0,
    Developers |-> <<>>, Publishers |-> <<>>, Marketplace |-> "Steam",
    URL |-> <<"https://store.steampowered.com/app", steamId>>,
    Thumbnail |-> "undefined", Description |-> "undefined", Tags |-> <<>> ]

\* remote items the initial store is made of; where the collection's schema
\* has a field named "collection", each item holds what a human put there
RemoteCandidates(withCollectionField) ==
  LET Item(id, steamId, rank) ==
        IF withCollectionField
        THEN RemoteItem(id, steamId, rank) @@ [collection |-> "shelf"]
        ELSE RemoteItem(id, steamId, rank)
  IN << Item(1, 2, 3), Item(2, 0, 0), Item(7, 3, 1), Item(8, 3, 0) >>

RemoteStores ==
  { SelectSeq(RemoteCandidates(w), LAMBDA r : r.id \in keep) :
      keep \in SUBSET {1, 2, 7, 8}, w \in BOOLEAN }

InitSink ==
  /\ pc = "sinkFetch"
  /\ exitCode = 0
  /\ remote \in RemoteStores
  /\ steamGameData \in
       { [ i \in DOMAIN ids |-> SinkRecord(ids[i]) ]
         : ids \in AscendingSeqs(MaxSinkRecords) }
  /\ page = 1
  /\ existingGames = {}
  /\ steamAppIdToDirectusItemIdMap = <<>>
  /\ upsertIdx = 1
  /\ sinkLog = <<>>
  /\ ReviewIdle /\ MergeIdle /\ FilesEmpty /\ PipeIdle

NextSink ==
  \/ FetchPage /\ UNCHANGED envVars
  \/ UpsertOne /\ UNCHANGED envVars

SpecSink == InitSink /\ [][NextSink]_vars


(***************************************************************************)
(* The pipeline: processSteamGames and processSteamGamesForSingleUser.     *)
(***************************************************************************)
Accounts == {"a", "b"}
\* the account whose owned items carry isAdmin
PrimaryAccount == "a"

\* what new Date().getTime() answers
Now == clock

\* the owned-item reference the ownership source gives for an id of an account
OwnedItemRef(account, appId) ==
  [ isAdmin |-> account = PrimaryAccount,
    appId |-> appId,
    hours |-> IF account = PrimaryAccount THEN 10 ELSE 20,
    lastPlayedUnix |-> IF account = PrimaryAccount THEN 100 ELSE 200 ]

\* the sequences over S of length at most n
RECURSIVE SeqsUpTo(_, _)
SeqsUpTo(S, n) ==
  IF n = 0 THEN { <<>> }
  ELSE SeqsUpTo(S, n - 1) \cup
       { Append(s, x) : s \in { t \in SeqsUpTo(S, n - 1) : Len(t) = n - 1 }, x \in S }

\* the lists of owned ids the ownership source can answer with
OwnedLists == SeqsUpTo(AppIds, MaxOwned)

\* the answers of the metadata source to one lookup:
\*   "throw"      fetch rejects, status 429, or the body is not JSON
\*   "noentry"    the body is empty or has no entry for the id
\*   "deleted"    the entry says success: false
\*   "nosuccess"  the entry has no truthy success, and it is not false either
\*   "nodata"     success: true with no data payload
\*   "baddata"    success: true with a payload the mapper throws on
\*   "data"       success: true with the payload of the id, whose name is 1
\* a payload reports an id of its own (steam_appid): the source answers every
\* lookup with the payload of the app MaxAppId, which is the app asked for or
\* the one that took its id over
StorePayload == [kind |-> "data", name |-> 1, steam_appid |-> MaxAppId]

StoreResponses ==
  { StorePayload } \cup
  { [kind |-> k, name |-> 0, steam_appid |-> 0] :
      k \in {"throw", "noentry", "deleted", "nosuccess", "nodata", "baddata"} }

\* the first element of s that satisfies the test (Array.prototype.find)
FindCached(s, appId) ==
  s[CHOOSE i \in DOMAIN s :
      /\ s[i].appId = appId
      /\ \A j \in 1..(i - 1) : s[j].appId # appId]

\* mapSteamAppToProcessedGameInfo(basicData, data, query, logger) on a payload
\* it does not throw on
\* a mutant: the record takes the id the payload reports
mapWithPayloadAppId(basicData, data) ==
  IdentityRecord(data.steam_appid, data.name, basicData)

mapSteamAppToProcessedGameInfo(basicData, data) ==
  IdentityRecord(basicData.appId, data.name, basicData)

\* the answers that count as failures of the metadata source
StoreFaults == {"throw", "noentry", "nosuccess", "nodata", "baddata"}

\* the ids whose record in s carries the statistics layer, and the estimate layer
LayersOf(s) ==
  [ spy |-> { s[i].appId : i \in { j \in DOMAIN s : s[j].spy_update_timestamp # 0 } },
    hltb |-> { s[i].appId : i \in { j \in DOMAIN s : s[j].last_hltb_update_timestamp # 0 } } ]

\* the run begins: main() calls processSteamGames(steam_ids, { useCache })
StartRun(ids, uc) ==
  /\ pc \in {"idle", "returned", "crashed"}
  /\ clock' = clock + 1
  /\ targetIds' = ids
  /\ useCache' = uc
  /\ userIdx' = 1
  /\ combinedGames' = <<>>
  /\ uniqueGames' = <<>>
  /\ basicSteamGameInfos' = <<>>
  /\ cachedGameInfos' = <<>>
  /\ knownDeletedAppIds' = <<>>
  /\ gameInfos' = <<>>
  /\ failedGameInfos' = <<>>
  /\ itemIdx' = 1
  /\ failedAttempts' = 0
  /\ sleptMs' = 0
  /\ ownedCalls' = 0
  /\ storeRequests' = NoRequests
  /\ spyRequests' = NoRequests
  /\ tokenCalls' = 0
  /\ hltbRequests' = NoRequests
  /\ deniedAtStart' = SeqRange(deletedFile)
  /\ cachedAtStart' = AppIdsOf(cacheFile)
  /\ layersAtStart' = LayersOf(cacheFile)
  /\ exitCode' = 0
  /\ pc' = "fetchOwned"
  /\ UNCHANGED <<reviewVars, mergeVars, fileVars, sinkVars>>

\* fetchOwnedGames(targetSteamId), then the two cache loads; a failure of the
\* ownership request is not caught anywhere
FetchOwned(ok, owned) ==
  /\ pc = "fetchOwned"
  /\ ownedCalls' = ownedCalls + 1
  /\ IF ~ok
     THEN /\ pc' = "crashed"
          /\ exitCode' = 1
          /\ UNCHANGED <<basicSteamGameInfos, cachedGameInfos, knownDeletedAppIds,
                         gameInfos, failedGameInfos, itemIdx>>
     ELSE /\ basicSteamGameInfos' =
               [ i \in DOMAIN owned |-> OwnedItemRef(targetIds[userIdx], owned[i]) ]
          /\ cachedGameInfos' =
               IF useCache THEN loadCacheFile(fileStatus["gameInfo"], cacheFile) ELSE <<>>
          /\ knownDeletedAppIds' =
               IF useCache THEN loadCacheFile(fileStatus["knownDeleted"], deletedFile)
               ELSE <<>>
          /\ gameInfos' = <<>>
          /\ failedGameInfos' = <<>>
          /\ itemIdx' = 1
          /\ pc' = IF owned = <<>> THEN "writeA" ELSE "identity"
          /\ UNCHANGED exitCode
  /\ UNCHANGED <<reviewVars, mergeVars, fileVars, sinkVars, runVars, failedAttempts,
                 sleptMs,
                 storeRequests, spyRequests, tokenCalls, hltbRequests, deniedAtStart,
                 cachedAtStart, layersAtStart, clock>>

\* a mutant: the cached record is taken with the transient layer it is stored with
ReuseCachedAsStored(cachedGameInfo, basicGameInfo) == cachedGameInfo

\* { ...cachedGameInfo, basicData: basicGameInfo }
ReuseCached(cachedGameInfo, basicGameInfo) ==
  [cachedGameInfo EXCEPT !.basicData = basicGameInfo]

\* a mutant: every answer without a truthy success adds to the denylist
AddsToDenylistUnlessSuccess(resp) == resp.kind \in {"deleted", "nosuccess"}

\* appData[appId] && appData[appId].success === false
AddsToDenylist(resp) == resp.kind = "deleted"

\* a mutant: an owned item is never taken as a duplicate
NeverInResultSet(infos, appId) == FALSE

\* gameInfos.findIndex((gi) => gi.appId === basicGameInfo.appId) !== -1
AlreadyInResultSet(infos, appId) == appId \in AppIdsOf(infos)

\* a mutant: the cached records are not consulted
IdentityBranchWithoutCache(infos, cached, deleted, appId) ==
  IF AlreadyInResultSet(infos, appId) THEN "duplicate"
  ELSE IF appId \in SeqRange(deleted) THEN "denylisted"
  ELSE "lookup"

\* a mutant: the denylist is consulted before the cached records
IdentityBranchDenylistFirst(infos, cached, deleted, appId) ==
  IF AlreadyInResultSet(infos, appId) THEN "duplicate"
  ELSE IF appId \in SeqRange(deleted) THEN "denylisted"
  ELSE IF appId \in AppIdsOf(cached) THEN "cached"
  ELSE "lookup"

\* the tests an owned item goes through, in the order the loop makes them:
\* a duplicate, a cached record, a denylisted id, and else the lookup
IdentityBranch(infos, cached, deleted, appId) ==
  IF AlreadyInResultSet(infos, appId) THEN "duplicate"
  ELSE IF appId \in AppIdsOf(cached) THEN "cached"
  ELSE IF appId \in SeqRange(deleted) THEN "denylisted"
  ELSE "lookup"

\* one iteration of the loop over basicSteamGameInfos
IdentityStep(resp) ==
  /\ pc = "identity"
  /\ LET basicGameInfo == basicSteamGameInfos[itemIdx]
         appId == basicGameInfo.appId
         next == IF itemIdx = Len(basicSteamGameInfos) THEN "writeA" ELSE "identity"
         branch == IdentityBranch(gameInfos, cachedGameInfos, knownDeletedAppIds, appId)
     IN /\ itemIdx' = itemIdx + 1
        /\ IF branch = "duplicate"
           THEN /\ pc' = next
                /\ UNCHANGED <<gameInfos, failedGameInfos, knownDeletedAppIds,
                               storeRequests, exitCode>>
           ELSE IF branch = "cached"
           THEN /\ gameInfos' = Append(gameInfos,
                      ReuseCached(FindCached(cachedGameInfos, appId), basicGameInfo))
                /\ pc' = next
                /\ UNCHANGED <<failedGameInfos, knownDeletedAppIds, storeRequests, exitCode>>
           ELSE IF branch = "denylisted"
           THEN /\ failedGameInfos' = Append(failedGameInfos, appId)
                /\ pc' = next
                /\ UNCHANGED <<gameInfos, knownDeletedAppIds, storeRequests, exitCode>>
           ELSE /\ storeRequests' = [storeRequests EXCEPT ![appId] = @ + 1]
                /\ gameInfos' =
                     IF resp.kind = "data"
                     THEN Append(gameInfos,
                                 mapSteamAppToProcessedGameInfo(basicGameInfo, resp))
                     ELSE gameInfos
                /\ failedGameInfos' =
                     IF resp.kind \in {"deleted", "nosuccess"}
                     THEN Append(failedGameInfos, appId)
                     ELSE failedGameInfos
                /\ knownDeletedAppIds' =
                     IF AddsToDenylist(resp)
                     THEN Append(knownDeletedAppIds, appId)
                     ELSE knownDeletedAppIds
                /\ pc' = IF resp.kind = "nodata" THEN "crashed" ELSE next
                /\ exitCode' = IF resp.kind = "nodata" THEN 1 ELSE exitCode
  /\ UNCHANGED <<reviewVars, mergeVars, fileVars, sinkVars, runVars, basicSteamGameInfos,
                 cachedGameInfos, failedAttempts, sleptMs, ownedCalls, spyRequests,
                 tokenCalls,
                 hltbRequests, deniedAtStart,
                 cachedAtStart, layersAtStart, clock>>

\* updateSteamGameInfoCache(cachedGameInfos, gameInfos): a failed write is
\* caught and logged
WriteCacheA(ok) ==
  /\ pc = "writeA"
  /\ cacheFile' = IF ok THEN GameInfoCacheContent(cachedGameInfos, gameInfos) ELSE cacheFile
  /\ fileStatus' = Written(fileStatus, "gameInfo", ok)
  /\ pc' = "writeDeleted"
  /\ UNCHANGED <<exitCode, reviewVars, mergeVars, deletedFile, sinkVars, pipeVars>>

\* updateKnownDeletedGamesCache(knownDeletedAppIds): the list is sorted in
\* place and written; a failed write is caught and logged
WriteDeleted(ok) ==
  /\ pc = "writeDeleted"
  /\ knownDeletedAppIds' = SortNumbers(knownDeletedAppIds)
  /\ deletedFile' = IF ok THEN SortNumbers(knownDeletedAppIds) ELSE deletedFile
  /\ fileStatus' = Written(fileStatus, "knownDeleted", ok)
  /\ itemIdx' = 1
  /\ pc' = IF gameInfos = <<>> THEN "writeB" ELSE "spy"
  /\ UNCHANGED <<exitCode, reviewVars, mergeVars, cacheFile, sinkVars, runVars,
                 basicSteamGameInfos, cachedGameInfos, gameInfos, failedGameInfos,
                 failedAttempts, sleptMs, callVars, deniedAtStart,
                 cachedAtStart, layersAtStart, clock>>

(***************************************************************************)
(* The statistics layer: fetchSteamSpyDataForAppIds.                       *)
(***************************************************************************)
\* the answers of the statistics source to one request:
\*   "throw"   fetch rejects or the body is not JSON
\*   "noname"  a body without a name
\*   "data"    a body with a name and the two review counts
SpyResponses ==
  { [kind |-> "data", positive |-> 80, negative |-> 20],
    [kind |-> "noname", positive |-> 0, negative |-> 0],
    [kind |-> "throw", positive |-> 0, negative |-> 0] }

\* the record after the statistics source answered resp
WithSpyData(gameInfo, resp) ==
  IF resp.kind = "throw" THEN gameInfo
  ELSE IF resp.kind = "noname" THEN [gameInfo EXCEPT !.spy_update_timestamp = Now]
  ELSE [gameInfo EXCEPT
          !.total_positive_reviews = resp.positive,
          !.total_negative_reviews = resp.negative,
          !.total_reviews = resp.positive + resp.negative,
          !.review_category = determineReviewCategory(resp.positive, resp.negative),
          !.spy_update_timestamp = Now]

\* a mutant: the layer's timestamp does not stop a request
SpySkipsNever(gameInfo, uc) == FALSE

\* gameInfo.spy_update_timestamp && finalOptions.useCache
SpySkips(gameInfo, uc) == gameInfo.spy_update_timestamp # 0 /\ uc

\* one iteration of the loop of fetchSteamSpyDataForAppIds
SpyStep(resp) ==
  /\ pc = "spy"
  /\ LET gameInfo == gameInfos[itemIdx]
     IN IF SpySkips(gameInfo, useCache)
        THEN UNCHANGED <<gameInfos, spyRequests>>
        ELSE /\ spyRequests' = [spyRequests EXCEPT ![gameInfo.appId] = @ + 1]
             /\ gameInfos' = [gameInfos EXCEPT ![itemIdx] = WithSpyData(gameInfo, resp)]
  /\ itemIdx' = itemIdx + 1
  /\ pc' = IF itemIdx = Len(gameInfos) THEN "writeB" ELSE "spy"
  /\ UNCHANGED <<exitCode, reviewVars, mergeVars, fileVars, sinkVars, runVars,
                 basicSteamGameInfos, cachedGameInfos, knownDeletedAppIds,
                 failedGameInfos, failedAttempts, sleptMs, ownedCalls, storeRequests,
                 tokenCalls,
                 hltbRequests, deniedAtStart,
                 cachedAtStart, layersAtStart, clock>>

\* loadGameInfoCache, then updateSteamGameInfoCache(refreshedCachedGameInfosA, gameInfos)
WriteCacheB(ok) ==
  /\ pc = "writeB"
  /\ cacheFile' =
       IF ok
       THEN GameInfoCacheContent(loadCacheFile(fileStatus["gameInfo"], cacheFile), gameInfos)
       ELSE cacheFile
  /\ fileStatus' = Written(fileStatus, "gameInfo", ok)
  /\ pc' = "hltbToken"
  /\ UNCHANGED <<exitCode, reviewVars, mergeVars, deletedFile, sinkVars, pipeVars>>

(***************************************************************************)
(* The completion-time estimate layer: processHltbDataForSteamGames.       *)
(***************************************************************************)
MAX_HLTB_FAILED_ATTEMPTS == 10
HLTB_API_SLEEP_MS_BASE == 1500

\* the answers of the estimate source to one search:
\*   "throw"  the request fails
\*   "empty"  no result
\*   "data"   a first result with its name and its three completion times
\*            (comp_main, comp_plus, comp_100) in seconds
HltbData(comp_main, comp_plus, comp_100) ==
  [kind |-> "data", game_name |-> "match", comp_main |-> comp_main,
   comp_plus |-> comp_plus, comp_100 |-> comp_100]

HltbResponses ==
  { HltbData(5400, 7199, 1800),
    [kind |-> "empty", game_name |-> "undefined", comp_main |-> 0,
     comp_plus |-> 0, comp_100 |-> 0],
    [kind |-> "throw", game_name |-> "undefined", comp_main |-> 0,
     comp_plus |-> 0, comp_100 |-> 0] }

\* a mutant: the hours are truncated
FloorHours(seconds) == seconds \div 3600

\* Math.round(seconds / 60 / 60) for seconds >= 0: a half rounds up
RoundHours(seconds) == (seconds + 1800) \div 3600

\* the record after the estimate source answered resp without failing
WithHltbData(gameInfo, resp) ==
  IF resp.kind = "data"
  THEN [gameInfo EXCEPT
          !.hltb_name = resp.game_name,
          !.hltb_hours = RoundHours(resp.comp_main),
          !.hltb_hours_extra = RoundHours(resp.comp_plus),
          !.hltb_hours_completionist = RoundHours(resp.comp_100),
          !.last_hltb_update_timestamp = Now]
  ELSE [gameInfo EXCEPT !.last_hltb_update_timestamp = Now]

\* isExplicitlyDissimilar: the ledger holds an entry for the id with status
\* "no" that names the record's name and its matched name
IsExplicitlyDissimilar(gameInfo, ledgerSaysNo) ==
  ledgerSaysNo /\ gameInfo.hltb_name # "undefined"

\* a mutant: the layer's timestamp alone decides
HltbSkipsByTimestamp(gameInfo, ledgerSaysNo, uc) ==
  gameInfo.last_hltb_update_timestamp # 0 /\ uc

\* the record is passed over: not explicitly dissimilar, and
\* gameInfo.last_hltb_update_timestamp && finalOptions.useCache
HltbSkips(gameInfo, ledgerSaysNo, uc) ==
  /\ ~IsExplicitlyDissimilar(gameInfo, ledgerSaysNo)
  /\ gameInfo.last_hltb_update_timestamp # 0
  /\ uc

\* a mutant: the delay does not grow with the failures
HltbSleepMsFixed(attempts) == HLTB_API_SLEEP_MS_BASE

\* sleep(HLTB_API_SLEEP_MS_BASE + failedAttempts * 1000) before a request
HltbSleepMs(attempts) == HLTB_API_SLEEP_MS_BASE + attempts * 1000

\* captureHltbAuthToken() at the start of the layer; when it fails the layer
\* returns at once
HltbToken(ok) ==
  /\ pc = "hltbToken"
  /\ tokenCalls' = tokenCalls + 1
  /\ failedAttempts' = 0
  /\ sleptMs' = 0
  /\ itemIdx' = 1
  /\ pc' = IF ~ok THEN "writeC" ELSE IF gameInfos = <<>> THEN "hltbLedger" ELSE "hltb"
  /\ UNCHANGED <<exitCode, reviewVars, mergeVars, fileVars, sinkVars, runVars,
                 basicSteamGameInfos, cachedGameInfos, knownDeletedAppIds, gameInfos,
                 failedGameInfos, ownedCalls, storeRequests, spyRequests, hltbRequests,
                 deniedAtStart,
                 cachedAtStart, layersAtStart, clock>>

\* one iteration of the loop of processHltbDataForSteamGames
HltbStep(ledgerSaysNo, resp, recaptured) ==
  /\ pc = "hltb"
  /\ LET gameInfo == gameInfos[itemIdx]
         next == IF itemIdx = Len(gameInfos) THEN "hltbLedger" ELSE "hltb"
         saysNo == loadDissimilarGamesCache(fileStatus["dissimilar"], ledgerSaysNo)
     IN IF HltbSkips(gameInfo, saysNo, useCache)
        THEN /\ pc' = next
             /\ UNCHANGED <<gameInfos, hltbRequests, failedAttempts, sleptMs, tokenCalls>>
        ELSE /\ sleptMs' = HltbSleepMs(failedAttempts)
             /\ hltbRequests' = [hltbRequests EXCEPT ![gameInfo.appId] = @ + 1]
             /\ IF resp.kind # "throw"
                THEN /\ gameInfos' = [gameInfos EXCEPT ![itemIdx] = WithHltbData(gameInfo, resp)]
                     /\ failedAttempts' = 0
                     /\ pc' = next
                     /\ UNCHANGED <<tokenCalls>>
                ELSE /\ failedAttempts' = failedAttempts + 1
                     /\ UNCHANGED gameInfos
                     /\ IF failedAttempts + 1 >= MAX_HLTB_FAILED_ATTEMPTS
                        THEN /\ pc' = "hltbLedger"
                             /\ UNCHANGED tokenCalls
                        ELSE /\ tokenCalls' = tokenCalls + 1
                             /\ pc' = IF recaptured THEN next ELSE "hltbLedger"
  /\ itemIdx' = itemIdx + 1
  /\ UNCHANGED <<exitCode, reviewVars, mergeVars, fileVars, sinkVars, runVars,
                 basicSteamGameInfos, cachedGameInfos, knownDeletedAppIds,
                 failedGameInfos, ownedCalls, storeRequests, spyRequests,
                 deniedAtStart,
                 cachedAtStart, layersAtStart, clock>>

\* the two updateDissimilarGamesCache calls, whose writeFile is not in a try
HltbLedger(ok) ==
  /\ pc = "hltbLedger"
  /\ pc' = IF ok THEN "writeC" ELSE "crashed"
  /\ exitCode' = IF ok THEN exitCode ELSE 1
  /\ fileStatus' = Written(fileStatus, "dissimilar", ok)
  /\ UNCHANGED <<reviewVars, mergeVars, cacheFile, deletedFile, sinkVars, pipeVars>>

\* loadGameInfoCache, updateSteamGameInfoCache(refreshedCachedGameInfosB, gameInfos),
\* return gameInfos, with which the locals of the function end; processSteamGames
\* pushes them and goes to the next account
WriteCacheC(ok) ==
  /\ pc = "writeC"
  /\ cacheFile' =
       IF ok
       THEN GameInfoCacheContent(loadCacheFile(fileStatus["gameInfo"], cacheFile), gameInfos)
       ELSE cacheFile
  /\ fileStatus' = Written(fileStatus, "gameInfo", ok)
  /\ combinedGames' = combinedGames \o gameInfos
  /\ userIdx' = userIdx + 1
  /\ pc' = IF userIdx = Len(targetIds) THEN "merge" ELSE "fetchOwned"
  /\ basicSteamGameInfos' = <<>>
  /\ cachedGameInfos' = <<>>
  /\ knownDeletedAppIds' = <<>>
  /\ gameInfos' = <<>>
  /\ failedGameInfos' = <<>>
  /\ itemIdx' = 1
  /\ failedAttempts' = 0
  /\ sleptMs' = 0
  /\ UNCHANGED <<exitCode, reviewVars, mergeVars, deletedFile, sinkVars, useCache,
                 targetIds, uniqueGames, callVars, deniedAtStart,
                 cachedAtStart, layersAtStart, clock>>

(***************************************************************************)
(* The cross-account merge of processSteamGames.                           *)
(***************************************************************************)
\* a mutant: a later record always replaces an earlier one
UniqueGamesMapLastWins(game, earlier) == TRUE

\* a mutant: only a record of the primary account replaces an earlier one
OverwritesOnlyByAdmin(game, earlier) == game.basicData.isAdmin

\* whether game is put in uniqueGamesMap, earlier being the entry of its id
Overwrites(game, earlier) == ~(earlier.basicData.isAdmin /\ ~game.basicData.isAdmin)

\* uniqueGamesMap after combinedGames.forEach
RECURSIVE UniqueGamesMap(_)
UniqueGamesMap(games) ==
  IF games = <<>> THEN <<>>
  ELSE LET m == UniqueGamesMap(SubSeq(games, 1, Len(games) - 1))
           game == games[Len(games)]
       IN IF game.appId \in DOMAIN m /\ ~Overwrites(game, m[game.appId])
          THEN m
          ELSE [ k \in DOMAIN m \cup {game.appId} |->
                   IF k = game.appId THEN game ELSE m[k] ]

\* Object.values of an object with integer keys: in ascending key order
RECURSIVE ObjectValues(_)
ObjectValues(m) ==
  IF DOMAIN m = {} THEN <<>>
  ELSE LET top == CHOOSE k \in DOMAIN m : \A j \in DOMAIN m : j <= k
       IN Append(ObjectValues([ k \in DOMAIN m \ {top} |-> m[k] ]), m[top])

\* a mutant: the concatenation of the accounts' lists is returned
ReturnCombinedGames(games) == games

\* the list processSteamGames returns
UniqueGamesOf(games) == SortByAppId(ObjectValues(UniqueGamesMap(games)))

MergeAccounts ==
  /\ pc = "merge"
  /\ uniqueGames' = UniqueGamesOf(combinedGames)
  /\ pc' = "returned"
  /\ UNCHANGED <<exitCode, reviewVars, mergeVars, fileVars, sinkVars, useCache, targetIds,
                 userIdx, combinedGames, userVars, callVars, deniedAtStart,
                 cachedAtStart, layersAtStart, clock>>

(***************************************************************************)
(* Any number of runs, with any options, accounts and answers.             *)
(***************************************************************************)
TargetLists == DistinctSeqs(Accounts) \ { <<>> }

\* the environment fails once more, if it is a failure
Charge(failure) ==
  IF failure
  THEN faultsLeft > 0 /\ faultsLeft' = faultsLeft - 1
  ELSE UNCHANGED faultsLeft

Init ==
  /\ pc = "idle"
  /\ exitCode = 0
  /\ ReviewIdle /\ MergeIdle /\ FilesEmpty /\ SinkIdle
  /\ RunIdle /\ UserIdle /\ CallsIdle /\ deniedAtStart = {} /\ cachedAtStart = {}
  /\ layersAtStart = NoLayers
  /\ clock = 0
  /\ passesLeft = MaxPasses
  /\ faultsLeft = MaxFaults
  /\ world = <<>>
  /\ prevResult = <<>>

\* a run of any accounts with any options
RunStarts ==
  \E ids \in TargetLists, uc \in BOOLEAN :
    /\ passesLeft >= Len(ids)
    /\ StartRun(ids, uc)
    /\ passesLeft' = passesLeft - Len(ids)
    /\ UNCHANGED <<faultsLeft, world, prevResult>>

OwnedAnswer ==
  \E ok \in BOOLEAN, owned \in OwnedLists :
    FetchOwned(ok, owned) /\ Charge(~ok) /\ UNCHANGED <<passesLeft, world, prevResult>>

StoreAnswer ==
  \E resp \in StoreResponses :
    /\ IdentityStep(resp)
    /\ Charge(storeRequests' # storeRequests /\ resp.kind \in StoreFaults)
    /\ UNCHANGED <<passesLeft, world, prevResult>>

CacheWriteA ==
  \E ok \in BOOLEAN :
    WriteCacheA(ok) /\ Charge(~ok) /\ UNCHANGED <<passesLeft, world, prevResult>>

DenylistWrite ==
  \E ok \in BOOLEAN :
    WriteDeleted(ok) /\ Charge(~ok) /\ UNCHANGED <<passesLeft, world, prevResult>>

SpyAnswer ==
  \E resp \in SpyResponses :
    /\ SpyStep(resp)
    /\ Charge(spyRequests' # spyRequests /\ resp.kind = "throw")
    /\ UNCHANGED <<passesLeft, world, prevResult>>

CacheWriteB ==
  \E ok \in BOOLEAN :
    WriteCacheB(ok) /\ Charge(~ok) /\ UNCHANGED <<passesLeft, world, prevResult>>

TokenAnswer ==
  \E ok \in BOOLEAN :
    HltbToken(ok) /\ Charge(~ok) /\ UNCHANGED <<passesLeft, world, prevResult>>

\* a failed recapture of the token comes with the failed search it follows
HltbAnswer ==
  \E no \in BOOLEAN, resp \in HltbResponses, recaptured \in BOOLEAN :
    /\ HltbStep(no, resp, recaptured)
    /\ Charge(hltbRequests' # hltbRequests /\ resp.kind = "throw")
    /\ UNCHANGED <<passesLeft, world, prevResult>>

LedgerWrite ==
  \E ok \in BOOLEAN :
    HltbLedger(ok) /\ Charge(~ok) /\ UNCHANGED <<passesLeft, world, prevResult>>

CacheWriteC ==
  \E ok \in BOOLEAN :
    WriteCacheC(ok) /\ Charge(~ok) /\ UNCHANGED <<passesLeft, world, prevResult>>

Merged == MergeAccounts /\ UNCHANGED envVars

Next ==
  \/ RunStarts
  \/ OwnedAnswer
  \/ StoreAnswer
  \/ CacheWriteA
  \/ DenylistWrite
  \/ SpyAnswer
  \/ CacheWriteB
  \/ TokenAnswer
  \/ HltbAnswer
  \/ LedgerWrite
  \/ CacheWriteC
  \/ Merged

Spec == Init /\ [][Next]_vars

(***************************************************************************)
(* Two runs over the same accounts with caching enabled, every source      *)
(* answering a repeated request as it answered the first and every write   *)
(* of a file succeeding.                                                   *)
(***************************************************************************)
UnaskedList == <<0>>
UnaskedStore == [kind |-> "unasked", name |-> 0, steam_appid |-> 0]
UnaskedSpy == [kind |-> "unasked", positive |-> 0, negative |-> 0]
UnaskedHltb ==
  [kind |-> "unasked", game_name |-> "undefined", comp_main |-> 0,
   comp_plus |-> 0, comp_100 |-> 0]

\* the account lists, the owned lists and the ledgers of this specification
IdemTargetLists == { <<"a">>, <<"a", "b">>, <<"b", "a">> }
IdemOwnedLists == DistinctSeqs(AppIds)
IdemLedgers == { {}, {1} }

InitIdem ==
  /\ pc = "idle"
  /\ exitCode = 0
  /\ ReviewIdle /\ MergeIdle /\ FilesEmpty /\ SinkIdle
  /\ RunIdle /\ UserIdle /\ CallsIdle /\ deniedAtStart = {} /\ cachedAtStart = {}
  /\ layersAtStart = NoLayers
  /\ clock = 0
  /\ passesLeft = 0
  /\ faultsLeft = MaxFaults
  /\ \E no \in IdemLedgers :
       world = [ owned |-> [ a \in Accounts |-> UnaskedList ],
                 store |-> [ id \in AppIds |-> UnaskedStore ],
                 spy |-> [ id \in AppIds |-> UnaskedSpy ],
                 hltb |-> [ id \in AppIds |-> UnaskedHltb ],
                 token |-> "unasked",
                 ledgerNo |-> no ]
  /\ prevResult = <<>>

IdemFirstRun ==
  /\ pc = "idle"
  /\ \E ids \in IdemTargetLists : StartRun(ids, TRUE)
  /\ UNCHANGED envVars

IdemSecondRun ==
  /\ pc = "returned"
  /\ clock = 1
  /\ StartRun(targetIds, TRUE)
  /\ prevResult' = uniqueGames
  /\ UNCHANGED <<passesLeft, faultsLeft, world>>

IdemOwned ==
  /\ pc = "fetchOwned"
  /\ \E owned \in IdemOwnedLists :
       /\ world.owned[targetIds[userIdx]] \in {UnaskedList, owned}
       /\ FetchOwned(TRUE, owned)
       /\ world' = [world EXCEPT !.owned[targetIds[userIdx]] = owned]
  /\ UNCHANGED <<passesLeft, faultsLeft, prevResult>>

IdemStore ==
  /\ pc = "identity"
  /\ LET id == basicSteamGameInfos[itemIdx].appId
     IN \E resp \in StoreResponses :
          /\ world.store[id] \in {UnaskedStore, resp}
          /\ IdentityStep(resp)
          /\ world' = IF storeRequests' # storeRequests
                      THEN [world EXCEPT !.store[id] = resp]
                      ELSE world
          /\ Charge(/\ storeRequests' # storeRequests
                    /\ resp.kind \in StoreFaults
                    /\ world.store[id] = UnaskedStore)
  /\ UNCHANGED <<passesLeft, prevResult>>

IdemSpy ==
  /\ pc = "spy"
  /\ LET id == gameInfos[itemIdx].appId
     IN \E resp \in SpyResponses :
          /\ world.spy[id] \in {UnaskedSpy, resp}
          /\ SpyStep(resp)
          /\ world' = IF spyRequests' # spyRequests
                      THEN [world EXCEPT !.spy[id] = resp]
                      ELSE world
          /\ Charge(/\ spyRequests' # spyRequests
                    /\ resp.kind = "throw"
                    /\ world.spy[id] = UnaskedSpy)
  /\ UNCHANGED <<passesLeft, prevResult>>

IdemToken ==
  /\ pc = "hltbToken"
  /\ \E ok \in BOOLEAN :
       /\ world.token \in {"unasked", IF ok THEN "ok" ELSE "fail"}
       /\ HltbToken(ok)
       /\ world' = [world EXCEPT !.token = IF ok THEN "ok" ELSE "fail"]
       /\ Charge(~ok /\ world.token = "unasked")
  /\ UNCHANGED <<passesLeft, prevResult>>

\* the token was captured when the layer began, so it is recaptured as well
IdemHltb ==
  /\ pc = "hltb"
  /\ LET id == gameInfos[itemIdx].appId
     IN \E resp \in HltbResponses :
          /\ world.hltb[id] \in {UnaskedHltb, resp}
          /\ HltbStep(id \in world.ledgerNo, resp, TRUE)
          /\ world' = IF hltbRequests' # hltbRequests
                      THEN [world EXCEPT !.hltb[id] = resp]
                      ELSE world
          /\ Charge(/\ hltbRequests' # hltbRequests
                    /\ resp.kind = "throw"
                    /\ world.hltb[id] = UnaskedHltb)
  /\ UNCHANGED <<passesLeft, prevResult>>

IdemWriteA == WriteCacheA(TRUE) /\ UNCHANGED envVars
IdemWriteDeleted == WriteDeleted(TRUE) /\ UNCHANGED envVars
IdemWriteB == WriteCacheB(TRUE) /\ UNCHANGED envVars
IdemLedger == HltbLedger(TRUE) /\ UNCHANGED envVars
IdemWriteC == WriteCacheC(TRUE) /\ UNCHANGED envVars

NextIdem ==
  \/ IdemFirstRun
  \/ IdemSecondRun
  \/ IdemOwned
  \/ IdemStore
  \/ IdemWriteA
  \/ IdemWriteDeleted
  \/ IdemSpy
  \/ IdemWriteB
  \/ IdemToken
  \/ IdemHltb
  \/ IdemLedger
  \/ IdemWriteC
  \/ Merged

SpecIdem == InitIdem /\ [][NextIdem]_vars

(***************************************************************************)
(* The estimate layer on its own: the state of a first run of the primary  *)
(* account, caching enabled, when processHltbDataForSteamGames enters its  *)
(* loop over the records the first two layers gathered for the owned ids.  *)
(***************************************************************************)
\* the record of an id after the identity and the statistics layers
GatheredRecord(appId) ==
  WithSpyData(mapSteamAppToProcessedGameInfo(OwnedItemRef(PrimaryAccount, appId),
                                             StorePayload),
              [kind |-> "data", positive |-> 80, negative |-> 20])

EstimateLayerBegins(n) ==
  /\ pc = "hltb"
  /\ exitCode = 0
  /\ ReviewIdle /\ MergeIdle /\ SinkIdle
  /\ clock = 1
  /\ useCache = TRUE
  /\ targetIds = <<PrimaryAccount>>
  /\ userIdx = 1
  /\ combinedGames = <<>>
  /\ uniqueGames = <<>>
  /\ basicSteamGameInfos = [ i \in 1..n |-> OwnedItemRef(PrimaryAccount, i) ]
  /\ cachedGameInfos = <<>>
  /\ knownDeletedAppIds = <<>>
  /\ gameInfos = [ i \in 1..n |-> GatheredRecord(i) ]
  /\ failedGameInfos = <<>>
  /\ itemIdx = 1
  /\ failedAttempts = 0
  /\ sleptMs = 0
  /\ ownedCalls = 1
  /\ storeRequests = [ id \in 1..n |-> 1 ]
  /\ spyRequests = [ id \in 1..n |-> 1 ]
  /\ tokenCalls = 1
  /\ hltbRequests = [ id \in 1..n |-> 0 ]
  /\ deniedAtStart = {}
  /\ cachedAtStart = {}
  /\ layersAtStart = NoLayers
  /\ cacheFile = [ i \in 1..n |-> StripBasicData(GatheredRecord(i)) ]
  /\ deletedFile = <<>>
  /\ fileStatus = [ f \in CacheFiles |-> IF f = "dissimilar" THEN "missing" ELSE "ok" ]
  /\ passesLeft = 0
  /\ faultsLeft = 0
  /\ prevResult = <<>>

(***************************************************************************)
(* The durations of the estimate layer: one owned item, the estimate       *)
(* source holding any three completion times for it.                       *)
(***************************************************************************)
\* completion times in seconds, around the half hours
Durations == {0, 1799, 1800, 1801, 5399, 5400, 7199, 7200}

InitHours ==
  /\ EstimateLayerBegins(1)
  /\ \E m \in Durations, p \in Durations, c \in Durations :
       world = HltbData(m, p, c)

\* the estimate source answers with the times it holds, with no result, or fails
HoursAnswer ==
  /\ \E resp \in { world } \cup { r \in HltbResponses : r.kind # "data" },
        recaptured \in BOOLEAN :
       HltbStep(FALSE, resp, recaptured)
  /\ UNCHANGED envVars

NextHours ==
  \/ HoursAnswer
  \/ IdemLedger
  \/ IdemWriteC
  \/ Merged

SpecHours == InitHours /\ [][NextHours]_vars

(***************************************************************************)
(* The cache loads: one run of one account, begun with the three files in  *)
(* any state, each file missing, holding text that does not parse, or      *)
(* holding what an earlier run wrote.                                      *)
(***************************************************************************)
\* the record of an id as an earlier run cached it, with its three layers
EarlierRecord(appId) ==
  [ IdentityRecord(appId, 1, NoBasicData) EXCEPT
      !.spy_update_timestamp = 1,
      !.last_hltb_update_timestamp = 1,
      !.hltb_name = "match",
      !.hltb_hours = 2 ]

\* what a file can hold for each status: nothing when it is missing; when its
\* text does not parse, the content is what the text held before it was damaged
FileStates(contents) ==
  { <<"missing", <<>>>> } \cup
  { <<st, c>> : st \in {"corrupt", "ok"}, c \in contents }

InitLoad ==
  /\ pc = "idle"
  /\ exitCode = 0
  /\ ReviewIdle /\ MergeIdle /\ SinkIdle
  /\ RunIdle /\ UserIdle /\ CallsIdle /\ deniedAtStart = {} /\ cachedAtStart = {}
  /\ layersAtStart = NoLayers
  /\ clock = 1
  /\ \E g \in FileStates({ <<>>, <<EarlierRecord(1)>> }),
        d \in FileStates({ <<>>, <<1>>, <<2>> }),
        l \in FileStatuses :
       /\ cacheFile = g[2]
       /\ deletedFile = d[2]
       /\ fileStatus = [ f \in CacheFiles |->
                           IF f = "gameInfo" THEN g[1]
                           ELSE IF f = "knownDeleted" THEN d[1] ELSE l ]
  /\ passesLeft = 1
  /\ faultsLeft = 0
  /\ world = <<>>
  /\ prevResult = <<>>

SpecLoad == InitLoad /\ [][Next]_vars

(***************************************************************************)
(* The failure ceiling of the estimate layer: an account with more owned   *)
(* items than MAX_HLTB_FAILED_ATTEMPTS, the estimate source failing any of  *)
(* the requests and answering at most MaxAnswers of them (world counts the *)
(* answers it has left), the token recaptured or not, each write           *)
(* succeeding or failing.                                                  *)
(***************************************************************************)
InitCeiling ==
  /\ EstimateLayerBegins(MaxLayerItems)
  /\ world = MaxAnswers

CeilingAnswer ==
  /\ \E resp \in HltbResponses, recaptured \in BOOLEAN :
       /\ HltbStep(FALSE, resp, recaptured)
       /\ IF resp.kind = "throw"
          THEN UNCHANGED world
          ELSE world > 0 /\ world' = world - 1
  /\ UNCHANGED <<passesLeft, faultsLeft, prevResult>>

CeilingLedger == (\E ok \in BOOLEAN : HltbLedger(ok)) /\ UNCHANGED envVars

CeilingWriteC == (\E ok \in BOOLEAN : WriteCacheC(ok)) /\ UNCHANGED envVars

NextCeiling ==
  \/ CeilingAnswer
  \/ CeilingLedger
  \/ CeilingWriteC
  \/ Merged

SpecCeiling == InitCeiling /\ [][NextCeiling]_vars

(***************************************************************************)
(* The cross-account merge on its own: a run with caching enabled over up  *)
(* to MaxAccounts accounts, of which one or none is flagged primary, each   *)
(* owning any of the ids, every record taken from the cache; the state is  *)
(* the one in which processSteamGames has gathered the accounts' records.  *)
(***************************************************************************)
\* the steam ids of the accounts, in iteration order
AccountNames == <<"p", "q", "r", "s", "t">>

\* the owned item of the k-th account, whose hours and last-played time tell
\* the account
AccountItem(k, primary, appId) ==
  [isAdmin |-> k = primary, appId |-> appId, hours |-> 10 * k, lastPlayedUnix |-> 100 * k]

\* the records processSteamGamesForSingleUser returns for the k-th account
RECURSIVE UserGames(_, _, _)
UserGames(k, primary, ids) ==
  IF ids = {} THEN <<>>
  ELSE LET top == CHOOSE x \in ids : \A y \in ids : y <= x
       IN Append(UserGames(k, primary, ids \ {top}),
                 ReuseCached(EarlierRecord(top), AccountItem(k, primary, top)))

\* combinedGames after the loop over the first n accounts
RECURSIVE CombinedGamesOf(_, _, _)
CombinedGamesOf(n, primary, owns) ==
  IF n = 0 THEN <<>>
  ELSE CombinedGamesOf(n - 1, primary, owns) \o UserGames(n, primary, owns[n])

InitCross ==
  /\ pc = "merge"
  /\ exitCode = 0
  /\ ReviewIdle /\ MergeIdle /\ SinkIdle /\ UserIdle
  /\ clock = 2
  /\ useCache = TRUE
  /\ uniqueGames = <<>>
  /\ \E n \in 1..MaxAccounts :
       \E primary \in 0..n, owns \in [1..n -> SUBSET AppIds] :
         /\ targetIds = SubSeq(AccountNames, 1, n)
         /\ userIdx = n + 1
         /\ combinedGames = CombinedGamesOf(n, primary, owns)
         /\ ownedCalls = n
         /\ tokenCalls = n
  /\ storeRequests = NoRequests
  /\ spyRequests = NoRequests
  /\ hltbRequests = NoRequests
  /\ cacheFile = [ id \in AppIds |-> EarlierRecord(id) ]
  /\ deletedFile = <<>>
  /\ fileStatus = [ f \in CacheFiles |-> "ok" ]
  /\ deniedAtStart = {}
  /\ cachedAtStart = AppIds
  /\ layersAtStart = [spy |-> AppIds, hltb |-> AppIds]
  /\ passesLeft = 0
  /\ faultsLeft = 0
  /\ world = <<>>
  /\ prevResult = <<>>

NextCross == MergeAccounts /\ UNCHANGED envVars

SpecCross == InitCross /\ [][NextCross]_vars

(***************************************************************************)
(* The two enrichment layers on their own: a run of the primary account    *)
(* that owns every id, in the state in which the identity pass has written *)
(* its files and fetchSteamSpyDataForAppIds enters its loop.  With caching *)
(* enabled each record comes from the cache, with or without each layer of *)
(* an earlier run; with caching disabled each record is fresh.  The ledger *)
(* marks the ids of world.ledgerNo as explicitly dissimilar; every request *)
(* and every write succeeds or fails.                                      *)
(***************************************************************************)
\* what an earlier run left of the estimate layer in a cached record: nothing,
\* a timestamp only (the source had no result), or a timestamp and a match
EarlierEstimates == {"none", "empty", "data"}

\* the record of an id as an earlier run cached it
CachedVariant(appId, spyDone, estimate) ==
  [ EarlierRecord(appId) EXCEPT
      !.spy_update_timestamp = IF spyDone THEN 1 ELSE 0,
      !.last_hltb_update_timestamp = IF estimate = "none" THEN 0 ELSE 1,
      !.hltb_name = IF estimate = "data" THEN "match" ELSE "undefined",
      !.hltb_hours = IF estimate = "data" THEN 2 ELSE 0 ]

\* the statistics layer begins: caching enabled or not, each cached record
\* as v tells, the ledger file of the given status
LayersBegin(uc, v, st) ==
  /\ pc = "spy"
  /\ exitCode = 0
  /\ ReviewIdle /\ MergeIdle /\ SinkIdle
  /\ clock = 2
  /\ targetIds = <<PrimaryAccount>>
  /\ userIdx = 1
  /\ combinedGames = <<>>
  /\ uniqueGames = <<>>
  /\ basicSteamGameInfos = [ id \in AppIds |-> OwnedItemRef(PrimaryAccount, id) ]
  /\ knownDeletedAppIds = <<>>
  /\ failedGameInfos = <<>>
  /\ itemIdx = 1
  /\ failedAttempts = 0
  /\ sleptMs = 0
  /\ ownedCalls = 1
  /\ spyRequests = NoRequests
  /\ tokenCalls = 0
  /\ hltbRequests = NoRequests
  /\ deniedAtStart = {}
  /\ deletedFile = <<>>
  /\ LET cached == [ id \in AppIds |-> CachedVariant(id, v[id][1], v[id][2]) ]
         fresh == [ id \in AppIds |->
                     mapSteamAppToProcessedGameInfo(basicSteamGameInfos[id], StorePayload) ]
     IN   /\ useCache = uc
          /\ cachedGameInfos = IF uc THEN cached ELSE <<>>
          /\ gameInfos = IF uc
                         THEN [ id \in AppIds |->
                                  ReuseCached(cached[id], basicSteamGameInfos[id]) ]
                         ELSE fresh
          /\ cacheFile = IF uc THEN cached
                         ELSE [ id \in AppIds |-> StripBasicData(fresh[id]) ]
          /\ storeRequests = [ id \in AppIds |-> IF uc THEN 0 ELSE 1 ]
          /\ cachedAtStart = IF uc THEN AppIds ELSE {}
          /\ layersAtStart = IF uc THEN LayersOf(cached) ELSE NoLayers
  /\ fileStatus = [ f \in CacheFiles |-> IF f = "dissimilar" THEN st ELSE "ok" ]
  /\ passesLeft = 0
  /\ faultsLeft = 0
  /\ prevResult = <<>>

InitLayers ==
  /\ \E uc \in BOOLEAN, v \in [AppIds -> BOOLEAN \X EarlierEstimates],
        st \in FileStatuses :
       LayersBegin(uc, v, st)
  /\ \E no \in IdemLedgers : world = [ledgerNo |-> no]

LayerSpy == (\E resp \in SpyResponses : SpyStep(resp)) /\ UNCHANGED envVars

LayerWriteB == (\E ok \in BOOLEAN : WriteCacheB(ok)) /\ UNCHANGED envVars

LayerToken == (\E ok \in BOOLEAN : HltbToken(ok)) /\ UNCHANGED envVars

LayerHltb ==
  /\ pc = "hltb"
  /\ \E resp \in HltbResponses, recaptured \in BOOLEAN :
       HltbStep(gameInfos[itemIdx].appId \in world.ledgerNo, resp, recaptured)
  /\ UNCHANGED envVars

NextLayers ==
  \/ LayerSpy
  \/ LayerWriteB
  \/ LayerToken
  \/ LayerHltb
  \/ CeilingLedger
  \/ CeilingWriteC
  \/ Merged

SpecLayers == InitLayers /\ [][NextLayers]_vars

(***************************************************************************)
(* The delays of the estimate layer: a second run of an account with more  *)
(* owned items than MAX_HLTB_FAILED_ATTEMPTS, caching enabled, every       *)
(* record taken from the cache, some of them with the estimate of the      *)
(* earlier run; the estimate source fails any of the requests and answers  *)
(* at most MaxAnswers of them.                                             *)
(***************************************************************************)
\* the owned items that may carry an estimate already
StampedItems == {2, 5}

\* the owned items: one that is skipped, one whose request succeeds, and as
\* many as the ceiling takes
BackoffItems == MAX_HLTB_FAILED_ATTEMPTS + 2

InitBackoff ==
  /\ pc = "hltb"
  /\ exitCode = 0
  /\ ReviewIdle /\ MergeIdle /\ SinkIdle
  /\ clock = 2
  /\ useCache = TRUE
  /\ targetIds = <<PrimaryAccount>>
  /\ userIdx = 1
  /\ combinedGames = <<>>
  /\ uniqueGames = <<>>
  /\ basicSteamGameInfos = [ i \in 1..BackoffItems |-> OwnedItemRef(PrimaryAccount, i) ]
  /\ \E stamped \in SUBSET StampedItems :
       LET cached == [ i \in 1..BackoffItems |->
                         CachedVariant(i, TRUE, IF i \in stamped THEN "data" ELSE "none") ]
       IN /\ cachedGameInfos = cached
          /\ cacheFile = cached
          /\ gameInfos = [ i \in 1..BackoffItems |->
                             ReuseCached(cached[i], basicSteamGameInfos[i]) ]
          /\ layersAtStart = LayersOf(cached)
  /\ knownDeletedAppIds = <<>>
  /\ failedGameInfos = <<>>
  /\ itemIdx = 1
  /\ failedAttempts = 0
  /\ sleptMs = 0
  /\ ownedCalls = 1
  /\ storeRequests = [ id \in 1..BackoffItems |-> 0 ]
  /\ spyRequests = [ id \in 1..BackoffItems |-> 0 ]
  /\ tokenCalls = 1
  /\ hltbRequests = [ id \in 1..BackoffItems |-> 0 ]
  /\ deniedAtStart = {}
  /\ cachedAtStart = 1..BackoffItems
  /\ deletedFile = <<>>
  /\ fileStatus = [ f \in CacheFiles |-> "ok" ]
  /\ passesLeft = 0
  /\ faultsLeft = 0
  /\ world = MaxAnswers
  /\ prevResult = <<>>

SpecBackoff == InitBackoff /\ [][NextCeiling]_vars

(***************************************************************************)
(* The two layers beside another writer of the cache file: while a layer   *)
(* runs, another process may put a record of its own into the file, for an *)
(* id of the account's result set or for one outside it.  Every write of   *)
(* the pipeline succeeds.  world remembers which ids the other process     *)
(* wrote since the last post-layer write (added) and which it had written  *)
(* before that write (settled).                                            *)
(***************************************************************************)
ExternalAppId == MaxAppId + 1

\* the record the other process writes for an id: no record of the pipeline
\* carries its name
ExternalRecord(appId) ==
  [ IdentityRecord(appId, 7, NoBasicData) EXCEPT !.spy_update_timestamp = 1 ]

\* the file after the other process put its record r into it
ExternalFile(file, r) ==
  LET Other(x) == x.appId # r.appId
  IN SortByAppId(SelectSeq(file, Other) \o <<r>>)

InitExternal ==
  /\ \E uc \in BOOLEAN,
        v \in [AppIds -> {<<FALSE, "none">>, <<TRUE, "data">>}] :
       LayersBegin(uc, v, "ok")
  /\ world = [ledgerNo |-> {}, added |-> {}, settled |-> {}]

\* the other process writes while the statistics layer or the estimate layer
\* is running
ExternalWriter ==
  /\ pc \in {"spy", "hltbToken", "hltb", "hltbLedger"}
  /\ \E appId \in (AppIds \cup {ExternalAppId}) \ world.added :
       /\ cacheFile' = ExternalFile(cacheFile, ExternalRecord(appId))
       /\ world' = [world EXCEPT !.added = @ \cup {appId}]
  /\ fileStatus' = [fileStatus EXCEPT !["gameInfo"] = "ok"]
  /\ UNCHANGED <<pc, exitCode, reviewVars, mergeVars, deletedFile, sinkVars,
                 pipeVars, passesLeft, faultsLeft, prevResult>>

ExternalWriteB ==
  /\ WriteCacheB(TRUE)
  /\ world' = [world EXCEPT !.added = {}, !.settled = world.added]
  /\ UNCHANGED <<passesLeft, faultsLeft, prevResult>>

ExternalWriteC ==
  /\ WriteCacheC(TRUE)
  /\ world' = [world EXCEPT !.added = {}, !.settled = world.added]
  /\ UNCHANGED <<passesLeft, faultsLeft, prevResult>>

NextExternal ==
  \/ LayerSpy
  \/ ExternalWriteB
  \/ LayerToken
  \/ LayerHltb
  \/ CeilingLedger
  \/ ExternalWriteC
  \/ Merged
  \/ ExternalWriter

SpecExternal == InitExternal /\ [][NextExternal]_vars

(***************************************************************************)
(* fetchExistingGames against a remote store of any size.  The store is    *)
(* known by its answers only: it answers a page request with an empty      *)
(* page, with a page of world.width items whose ids follow the offset      *)
(* asked for, or not at all (the request is rejected).  world keeps the    *)
(* offsets asked for, the last answer and every item answered.  Every      *)
(* request is answered or rejected in the end.                             *)
(***************************************************************************)
\* the k-th item of the page at the given offset
PagingItem(offset, k) == [id |-> offset + k, Steam_ID |-> k, Name |-> 0, Rank |-> 0]

\* the answers of a store to the request for a page: the store has ended
\* before the offset, or holds width items from it
PageAnswers(offset, width) == { <<>>, [ k \in 1..width |-> PagingItem(offset, k) ] }

InitPaging ==
  /\ pc = "sinkFetch"
  /\ exitCode = 0
  /\ SinkIdle
  /\ ReviewIdle /\ MergeIdle /\ FilesEmpty
  /\ RunIdle /\ UserIdle /\ CallsIdle /\ deniedAtStart = {} /\ cachedAtStart = {}
  /\ layersAtStart = NoLayers
  /\ clock = 0
  /\ passesLeft = 0 /\ faultsLeft = 0 /\ prevResult = <<>>
  /\ \E width \in 1..MaxPageItems :
       world = [width |-> width, offsets |-> <<>>, answer |-> <<>>, seen |-> {}]

\* one page request that is answered
PagingFetch ==
  /\ \E response \in PageAnswers(PageOffset(page), world.width) :
       /\ FetchExistingGamesStep(response)
       /\ pc' = IF LoopEnds(response, page) THEN "sinkFetched" ELSE "sinkFetch"
       /\ world' = [world EXCEPT !.offsets = Append(@, PageOffset(page)),
                                 !.answer = response,
                                 !.seen = @ \cup SeqRange(response)]
  /\ UNCHANGED <<steamAppIdToDirectusItemIdMap, passesLeft, faultsLeft, prevResult>>

\* one page request that is rejected: fetchExistingGames catches nothing
PagingRejected ==
  /\ pc = "sinkFetch"
  /\ pc' = "sinkThrown"
  /\ world' = [world EXCEPT !.offsets = Append(@, PageOffset(page))]
  /\ UNCHANGED <<exitCode, reviewVars, mergeVars, fileVars, sinkVars, pipeVars,
                 passesLeft, faultsLeft, prevResult>>

NextPaging ==
  \/ PagingFetch
  \/ PagingRejected

SpecPaging == InitPaging /\ [][NextPaging]_vars /\ WF_vars(NextPaging)

(***************************************************************************)
(* captureHltbAuthToken at the start of the estimate layer, step by step.  *)
(* world.at is where the function is, world.browser what became of the     *)
(* browser it launched, world.waitedMs the time since the promise was      *)
(* made, world.outcome the token or the error the function settled with.   *)
(* Every call to the browser may fail; a call that is made returns or      *)
(* fails in the end.                                                       *)
(***************************************************************************)
CaptureTimeoutMs == 30000

InitToken ==
  /\ \E uc \in BOOLEAN,
        v \in [AppIds -> {<<FALSE, "none">>, <<TRUE, "data">>}] :
       LayersBegin(uc, v, "ok")
  /\ world = [ledgerNo |-> {}, at |-> "idle", browser |-> "none", waitedMs |-> 0,
              outcome |-> "pending"]

\* processHltbDataForSteamGames calls captureHltbAuthToken
CaptureBegins ==
  /\ pc = "hltbToken"
  /\ world.at = "idle"
  /\ world' = [world EXCEPT !.at = "launch"]
  /\ UNCHANGED <<pc, exitCode, reviewVars, mergeVars, fileVars, sinkVars, pipeVars,
                 passesLeft, faultsLeft, prevResult>>

\* await chromium.launch()
CaptureLaunch ==
  /\ world.at = "launch"
  /\ \E ok \in BOOLEAN :
       world' = IF ok THEN [world EXCEPT !.at = "newContext", !.browser = "open"]
                ELSE [world EXCEPT !.at = "settled", !.outcome = "launch failed"]
  /\ UNCHANGED <<pc, exitCode, reviewVars, mergeVars, fileVars, sinkVars, pipeVars,
                 passesLeft, faultsLeft, prevResult>>

\* await browser.newContext(...): not inside the try
CaptureNewContext ==
  /\ world.at = "newContext"
  /\ \E ok \in BOOLEAN :
       world' = IF ok THEN [world EXCEPT !.at = "newPage"]
                ELSE [world EXCEPT !.at = "settled", !.outcome = "newContext failed"]
  /\ UNCHANGED <<pc, exitCode, reviewVars, mergeVars, fileVars, sinkVars, pipeVars,
                 passesLeft, faultsLeft, prevResult>>

\* await context.newPage(): not inside the try; the promise is made next
CaptureNewPage ==
  /\ world.at = "newPage"
  /\ \E ok \in BOOLEAN :
       world' = IF ok THEN [world EXCEPT !.at = "waiting"]
                ELSE [world EXCEPT !.at = "settled", !.outcome = "newPage failed"]
  /\ UNCHANGED <<pc, exitCode, reviewVars, mergeVars, fileVars, sinkVars, pipeVars,
                 passesLeft, faultsLeft, prevResult>>

\* time passes while the promise is pending
CaptureTick ==
  /\ world.at = "waiting"
  /\ world.waitedMs < CaptureTimeoutMs
  /\ world' = [world EXCEPT !.waitedMs = @ + CaptureTickMs]
  /\ UNCHANGED <<pc, exitCode, reviewVars, mergeVars, fileVars, sinkVars, pipeVars,
                 passesLeft, faultsLeft, prevResult>>

\* page.on("request"): a POST to /api/search with an x-auth-token header
\* resolves the promise
CaptureRequest ==
  /\ world.at = "waiting"
  /\ world' = [world EXCEPT !.at = "closing", !.outcome = "token"]
  /\ UNCHANGED <<pc, exitCode, reviewVars, mergeVars, fileVars, sinkVars, pipeVars,
                 passesLeft, faultsLeft, prevResult>>

\* page.goto(...).catch(reject)
CaptureGotoRejects ==
  /\ world.at = "waiting"
  /\ world' = [world EXCEPT !.at = "closing", !.outcome = "goto failed"]
  /\ UNCHANGED <<pc, exitCode, reviewVars, mergeVars, fileVars, sinkVars, pipeVars,
                 passesLeft, faultsLeft, prevResult>>

\* the timer set with setTimeout(..., 30000) rejects the promise
CaptureTimeout ==
  /\ world.at = "waiting"
  /\ world.waitedMs = CaptureTimeoutMs
  /\ world' = [world EXCEPT !.at = "closing", !.outcome = "timeout: auth header not found"]
  /\ UNCHANGED <<pc, exitCode, reviewVars, mergeVars, fileVars, sinkVars, pipeVars,
                 passesLeft, faultsLeft, prevResult>>

\* finally { await browser.close() }
CaptureClose ==
  /\ world.at = "closing"
  /\ world' = [world EXCEPT !.at = "settled", !.browser = "closed"]
  /\ UNCHANGED <<pc, exitCode, reviewVars, mergeVars, fileVars, sinkVars, pipeVars,
                 passesLeft, faultsLeft, prevResult>>

\* the layer goes on with the token, or returns at once without it
CaptureSettles ==
  /\ world.at = "settled"
  /\ HltbToken(world.outcome = "token")
  /\ world' = [world EXCEPT !.at = "returned"]
  /\ UNCHANGED <<passesLeft, faultsLeft, prevResult>>

\* the loop of the layer: a request that fails is followed by a new capture
\* that succeeds
TokenHltb ==
  /\ pc = "hltb"
  /\ \E resp \in HltbResponses :
       HltbStep(gameInfos[itemIdx].appId \in world.ledgerNo, resp, TRUE)
  /\ UNCHANGED envVars

NextToken ==
  \/ LayerSpy
  \/ LayerWriteB
  \/ CaptureBegins
  \/ CaptureLaunch
  \/ CaptureNewContext
  \/ CaptureNewPage
  \/ CaptureTick
  \/ CaptureRequest
  \/ CaptureGotoRejects
  \/ CaptureTimeout
  \/ CaptureClose
  \/ CaptureSettles
  \/ TokenHltb
  \/ CeilingLedger
  \/ CeilingWriteC
  \/ Merged

SpecToken == InitToken /\ [][NextToken]_vars /\ WF_vars(NextToken)

(***************************************************************************)
(* Repeated runs of one account with caching enabled.  The account's owned *)
(* list is the same in every run; the ownership source, the metadata       *)
(* source and the writes of the identity pass fail MaxFaults times at most *)
(* and succeed from then on; a run that crashed is started again.          *)
(* world.owned is the owned list once the ownership source has told it.    *)
(***************************************************************************)
InitConverge ==
  /\ pc = "idle"
  /\ exitCode = 0
  /\ ReviewIdle /\ MergeIdle /\ FilesEmpty /\ SinkIdle
  /\ RunIdle /\ UserIdle /\ CallsIdle /\ deniedAtStart = {} /\ cachedAtStart = {}
  /\ layersAtStart = NoLayers
  /\ clock = 0
  /\ passesLeft = MaxPasses + MaxFaults
  /\ faultsLeft = MaxFaults
  /\ world = [owned |-> UnaskedList]
  /\ prevResult = <<>>

\* the script is run again
ConvergeRun ==
  /\ passesLeft > 0
  /\ StartRun(<<PrimaryAccount>>, TRUE)
  /\ passesLeft' = passesLeft - 1
  /\ UNCHANGED <<faultsLeft, world, prevResult>>

ConvergeOwned ==
  /\ pc = "fetchOwned"
  /\ \E ok \in BOOLEAN, owned \in OwnedLists :
       /\ world.owned \in {UnaskedList, owned}
       /\ FetchOwned(ok, owned)
       /\ world' = IF ok THEN [world EXCEPT !.owned = owned] ELSE world
       /\ Charge(~ok)
  /\ UNCHANGED <<passesLeft, prevResult>>

\* the statistics source answers every request
ConvergeSpy ==
  /\ \E resp \in SpyResponses : resp.kind = "data" /\ SpyStep(resp)
  /\ UNCHANGED envVars

\* the estimate source is out of reach: no token is captured
ConvergeToken == HltbToken(FALSE) /\ UNCHANGED envVars

NextConverge ==
  \/ ConvergeRun
  \/ ConvergeOwned
  \/ StoreAnswer
  \/ CacheWriteA
  \/ DenylistWrite
  \/ ConvergeSpy
  \/ IdemWriteB
  \/ ConvergeToken
  \/ IdemWriteC
  \/ Merged

SpecConverge == InitConverge /\ [][NextConverge]_vars /\ WF_vars(NextConverge)

(***************************************************************************)
(* The revision of processSteamGames with the skip option                  *)
(* (steam/index.ts): the owned list of an account is kept in a file of its *)
(* own, and with skip set the run reads that file instead of asking the    *)
(* ownership source and makes no lookup.  In this specification world      *)
(* holds the skip option of the run and the owned-games cache file of each *)
(* account.  An owned id is held in the item reference of the other        *)
(* revision, so that the records keep one shape; the lookup of a run       *)
(* without skip is the one of IdentityStep, with the answers "data" and    *)
(* "deleted".                                                              *)
(***************************************************************************)
\* loadOwnedGamesCache(targetSteamId): a missing file answers []
loadOwnedGamesCache(ownedFile, targetSteamId) == ownedFile[targetSteamId]

\* fetchOwnedGames(targetSteamId, !options.skip), then the two cache loads;
\* a forced fetch asks the ownership source and writes the owned-games cache
SkipFetchOwned(ok, owned) ==
  /\ pc = "fetchOwned"
  /\ LET force == ~world.skip
         targetSteamId == targetIds[userIdx]
         appIds == IF force THEN owned
                   ELSE loadOwnedGamesCache(world.ownedFile, targetSteamId)
     IN /\ ownedCalls' = IF force THEN ownedCalls + 1 ELSE ownedCalls
        /\ IF force /\ ~ok
           THEN /\ pc' = "crashed"
                /\ exitCode' = 1
                /\ UNCHANGED <<basicSteamGameInfos, cachedGameInfos, knownDeletedAppIds,
                               gameInfos, failedGameInfos, itemIdx, world>>
           ELSE /\ world' = IF force
                            THEN [world EXCEPT !.ownedFile[targetSteamId] = appIds]
                            ELSE world
                /\ basicSteamGameInfos' =
                     [ i \in DOMAIN appIds |-> OwnedItemRef(targetSteamId, appIds[i]) ]
                /\ cachedGameInfos' =
                     IF useCache THEN loadCacheFile(fileStatus["gameInfo"], cacheFile)
                     ELSE <<>>
                /\ knownDeletedAppIds' =
                     IF useCache
                     THEN loadCacheFile(fileStatus["knownDeleted"], deletedFile)
                     ELSE <<>>
                /\ gameInfos' = <<>>
                /\ failedGameInfos' = <<>>
                /\ itemIdx' = 1
                /\ pc' = IF appIds = <<>> THEN "writeA" ELSE "identity"
                /\ UNCHANGED exitCode
  /\ UNCHANGED <<reviewVars, mergeVars, fileVars, sinkVars, runVars, failedAttempts,
                 sleptMs, storeRequests, spyRequests, tokenCalls, hltbRequests,
                 deniedAtStart, cachedAtStart, layersAtStart, clock>>

\* a mutant: the skip option does not keep the loop from the lookup
SkipBranchNever(skip, branch) == branch

\* if (options.skip) continue, which the loop comes to after the tests of
\* IdentityBranch
SkipBranch(skip, branch) == IF skip /\ branch = "lookup" THEN "skipped" ELSE branch

\* one iteration of the loop over ownedSteamAppIds
SkipIdentityStep(resp) ==
  /\ pc = "identity"
  /\ LET appId == basicSteamGameInfos[itemIdx].appId
         branch == IdentityBranch(gameInfos, cachedGameInfos, knownDeletedAppIds, appId)
     IN IF SkipBranch(world.skip, branch) = "skipped"
        THEN /\ itemIdx' = itemIdx + 1
             /\ pc' = IF itemIdx = Len(basicSteamGameInfos) THEN "writeA" ELSE "identity"
             /\ UNCHANGED <<exitCode, reviewVars, mergeVars, fileVars, sinkVars, runVars,
                            basicSteamGameInfos, cachedGameInfos, knownDeletedAppIds,
                            gameInfos, failedGameInfos, failedAttempts, sleptMs,
                            callVars, deniedAtStart, cachedAtStart, layersAtStart,
                            clock>>
        ELSE IdentityStep(resp)

\* if (options.useCache) updateSteamGameInfoCache(cachedGameInfos, gameInfos)
SkipWriteA(ok) == useCache /\ WriteCacheA(ok)

\* if (options.useCache) updateKnownDeletedGamesCache(knownDeletedAppIds), then
\* return gameInfos: processSteamGames pushes them and goes to the next
\* account, or returns combinedGames (the unique list is only logged)
SkipReturn(ok) ==
  /\ \/ pc = "writeDeleted"
     \/ pc = "writeA" /\ ~useCache
  /\ deletedFile' = IF useCache /\ ok THEN SortNumbers(knownDeletedAppIds) ELSE deletedFile
  /\ fileStatus' = IF useCache THEN Written(fileStatus, "knownDeleted", ok) ELSE fileStatus
  /\ combinedGames' = combinedGames \o gameInfos
  /\ userIdx' = userIdx + 1
  /\ pc' = IF userIdx = Len(targetIds) THEN "returned" ELSE "fetchOwned"
  /\ basicSteamGameInfos' = <<>>
  /\ cachedGameInfos' = <<>>
  /\ knownDeletedAppIds' = <<>>
  /\ gameInfos' = <<>>
  /\ failedGameInfos' = <<>>
  /\ itemIdx' = 1
  /\ UNCHANGED <<exitCode, reviewVars, mergeVars, cacheFile, sinkVars, useCache,
                 targetIds, uniqueGames, failedAttempts, sleptMs, callVars,
                 deniedAtStart, cachedAtStart, layersAtStart, clock>>

\* the files an earlier run left: the enriched cache empty or with the record of
\* the id 1, the owned-games cache of each account with any list
InitSkip ==
  /\ pc = "idle"
  /\ exitCode = 0
  /\ ReviewIdle /\ MergeIdle /\ SinkIdle
  /\ RunIdle /\ UserIdle /\ CallsIdle /\ deniedAtStart = {} /\ cachedAtStart = {}
  /\ layersAtStart = NoLayers
  /\ clock = 0
  /\ deletedFile = <<>>
  /\ \E c \in { <<>>, <<IdentityRecord(1, 1, NoBasicData)>> } :
       /\ cacheFile = c
       /\ fileStatus = [ f \in CacheFiles |->
                           IF f = "gameInfo" /\ c # <<>> THEN "ok" ELSE "missing" ]
  /\ passesLeft = MaxPasses
  /\ faultsLeft = MaxFaults
  /\ \E o \in [Accounts -> OwnedLists] : world = [skip |-> FALSE, ownedFile |-> o]
  /\ prevResult = <<>>

\* a run of any accounts with any options
SkipRun ==
  \E ids \in TargetLists, uc \in BOOLEAN, skip \in BOOLEAN :
    /\ passesLeft >= Len(ids)
    /\ StartRun(ids, uc)
    /\ passesLeft' = passesLeft - Len(ids)
    /\ world' = [world EXCEPT !.skip = skip]
    /\ UNCHANGED <<faultsLeft, prevResult>>

SkipOwned ==
  \E ok \in BOOLEAN, owned \in OwnedLists :
    /\ world.skip => (ok /\ owned = <<>>)
    /\ SkipFetchOwned(ok, owned)
    /\ Charge(~ok)
    /\ UNCHANGED <<passesLeft, prevResult>>

SkipStore ==
  \E resp \in { r \in StoreResponses : r.kind \in {"data", "deleted"} } :
    SkipIdentityStep(resp) /\ UNCHANGED envVars

SkipCacheWrite ==
  \E ok \in BOOLEAN :
    SkipWriteA(ok) /\ Charge(~ok) /\ UNCHANGED <<passesLeft, world, prevResult>>

SkipReturns ==
  \E ok \in BOOLEAN :
    /\ useCache \/ ok
    /\ SkipReturn(ok)
    /\ Charge(~ok)
    /\ UNCHANGED <<passesLeft, world, prevResult>>

NextSkip == SkipRun \/ SkipOwned \/ SkipStore \/ SkipCacheWrite \/ SkipReturns

SpecSkip == InitSkip /\ [][NextSkip]_vars

(***************************************************************************)
(* The name-mismatch ledgers: loadDissimilarGamesCache and                 *)
(* updateDissimilarGamesCache (steam/caches.ts).  A ledger is a text file  *)
(* of lines "(<appId>) Is <gameInfoName> really <matchedName>? [<status>] ".*)
(* A line is modelled by its appId and the text after ") Is ", a sequence  *)
(* of tokens: a name is a sequence of tokens too, and it may hold the      *)
(* tokens the pattern of the loader looks for.  In this specification      *)
(* world holds the ledger of one mode, the map loaded from it, the         *)
(* warnings of the run, and what is left of the bounds.                    *)
(***************************************************************************)
\* the warnings of all the runs of a behaviour
MaxWarnings == 3

LedgerStatuses == {"yes", "no", "unconfirmed"}
\* a token is a tuple of strings
ReallyToken == <<" really ">>
StatusToken(status) == <<"? [", status, "]">>
StatusTokens == { StatusToken(s) : s \in LedgerStatuses }

\* the names of the model: plain ones, and ones that read like part of a line
LedgerNames ==
  { << <<"x">> >>, << <<"x">>, ReallyToken, <<"y">> >>, << <<"y">>, StatusToken("no") >> }

\* `(${appId}) Is ${entry.gameInfoName} really ${entry.matchedName}? [${entry.status}] `
FormatLine(appId, entry) ==
  [ appId |-> appId,
    text |-> entry.gameInfoName \o <<ReallyToken>> \o entry.matchedName
               \o <<StatusToken(entry.status), <<" ">>>> ]

\* line.match(/^\((\d+)\) Is (.+) really (.+)\? \[(yes|no|unconfirmed)]/): the
\* places of " really " and of "? [status]" with a name before each; both
\* groups are greedy, the first one first
LineSplits(text) ==
  { s \in (DOMAIN text) \X (DOMAIN text) :
      /\ s[1] > 1 /\ text[s[1]] = ReallyToken
      /\ s[2] > s[1] + 1 /\ text[s[2]] \in StatusTokens }

LineMatch(text) ==
  CHOOSE s \in LineSplits(text) :
    \A t \in LineSplits(text) : t[1] < s[1] \/ (t[1] = s[1] /\ t[2] <= s[2])

ParsedEntry(text) ==
  LET s == LineMatch(text)
  IN [ gameInfoName |-> SubSeq(text, 1, s[1] - 1),
       matchedName |-> SubSeq(text, s[1] + 1, s[2] - 1),
       status |-> text[s[2]][2] ]

\* the map loadDissimilarGamesCache answers with: of the lines of an id that
\* match, the last one
LoadedLedger(file) ==
  LET matching == { i \in DOMAIN file : LineSplits(file[i].text) # {} }
      ids == { file[i].appId : i \in matching }
      last(id) == CHOOSE i \in matching :
                    /\ file[i].appId = id
                    /\ \A j \in matching : file[j].appId = id => j <= i
  IN [ id \in ids |-> ParsedEntry(file[last(id)].text) ]

\* mode === "dissimilar" ? "unconfirmed" : "yes"
DefaultStatus(mode) == IF mode = "dissimilar" THEN "unconfirmed" ELSE "yes"

\* the entry mergedGamesMap has for an id of the list after the first forEach:
\* the last one of the list
ListEntry(list, appId, defaultStatus) ==
  LET k == CHOOSE i \in DOMAIN list :
             /\ list[i].appId = appId
             /\ \A j \in DOMAIN list : list[j].appId = appId => j <= i
  IN [ gameInfoName |-> list[k].gameInfoName,
       matchedName |-> list[k].matchedName,
       status |-> defaultStatus ]

\* a mutant: the entries of the list are set after the ones of the ledger
MergedGamesMapListLast(mode, dissimilarGamesCache, dissimilarGamesList) ==
  LET listIds == { dissimilarGamesList[i].appId : i \in DOMAIN dissimilarGamesList }
  IN [ id \in listIds \cup DOMAIN dissimilarGamesCache |->
         IF id \in listIds
         THEN ListEntry(dissimilarGamesList, id, DefaultStatus(mode))
         ELSE dissimilarGamesCache[id] ]

\* mergedGamesMap: the entries of the list, then the ones of the ledger, a
\* later set replacing an earlier one
MergedGamesMap(mode, dissimilarGamesCache, dissimilarGamesList) ==
  LET listIds == { dissimilarGamesList[i].appId : i \in DOMAIN dissimilarGamesList }
  IN [ id \in listIds \cup DOMAIN dissimilarGamesCache |->
         IF id \in DOMAIN dissimilarGamesCache
         THEN dissimilarGamesCache[id]
         ELSE ListEntry(dissimilarGamesList, id, DefaultStatus(mode)) ]

\* the lines updateDissimilarGamesCache writes: the entries in ascending id order
LedgerLines(mergedGamesMap) ==
  ObjectValues([ appId \in DOMAIN mergedGamesMap |->
                   FormatLine(appId, mergedGamesMap[appId]) ])

InitLedger ==
  /\ pc = "idle"
  /\ exitCode = 0
  /\ ReviewIdle /\ MergeIdle /\ FilesEmpty /\ SinkIdle
  /\ RunIdle /\ UserIdle /\ CallsIdle /\ deniedAtStart = {} /\ cachedAtStart = {}
  /\ layersAtStart = NoLayers
  /\ clock = 0
  /\ passesLeft = MaxPasses
  /\ faultsLeft = MaxFaults
  /\ \E mode \in {"dissimilar", "unconfident"} :
       world = [ mode |-> mode, file |-> <<>>, cache |-> <<>>, list |-> <<>>,
                 warningsLeft |-> MaxWarnings ]
  /\ prevResult = <<>>

ledgerFrame ==
  <<exitCode, reviewVars, mergeVars, fileVars, sinkVars, pipeVars, faultsLeft, prevResult>>

\* processHltbDataForSteamGames loads the ledger
LedgerLoad ==
  /\ pc \in {"idle", "ledgerWritten"}
  /\ passesLeft > 0
  /\ passesLeft' = passesLeft - 1
  /\ world' = [world EXCEPT !.cache = LoadedLedger(world.file), !.list = <<>>]
  /\ pc' = "ledgerLoaded"
  /\ UNCHANGED ledgerFrame

\* the loop pushes a warning for a record whose names do not match
LedgerWarn ==
  /\ pc = "ledgerLoaded"
  /\ world.warningsLeft > 0
  /\ \E appId \in AppIds, gameInfoName \in LedgerNames, matchedName \in LedgerNames :
       world' = [world EXCEPT
                   !.list = Append(@, [appId |-> appId, gameInfoName |-> gameInfoName,
                                       matchedName |-> matchedName]),
                   !.warningsLeft = @ - 1]
  /\ UNCHANGED <<pc, passesLeft, ledgerFrame>>

\* updateDissimilarGamesCache(mode, dissimilarGamesCache, dissimilarGamesList)
LedgerUpdate ==
  /\ pc = "ledgerLoaded"
  /\ world' = [world EXCEPT
                 !.file = LedgerLines(MergedGamesMap(world.mode, world.cache, world.list))]
  /\ pc' = "ledgerWritten"
  /\ UNCHANGED <<passesLeft, ledgerFrame>>

\* after a run the user sets the status of a line, to one of the three words
\* or to another one
LedgerReview ==
  /\ pc = "ledgerWritten"
  /\ faultsLeft > 0
  /\ \E i \in DOMAIN world.file, status \in LedgerStatuses \cup {"maybe"} :
       LET text == world.file[i].text
       IN world' = [world EXCEPT
                      !.file[i].text = [text EXCEPT ![Len(text) - 1] = StatusToken(status)]]
  /\ faultsLeft' = faultsLeft - 1
  /\ pc' = "idle"
  /\ UNCHANGED <<passesLeft, exitCode, reviewVars, mergeVars, fileVars, sinkVars,
                 pipeVars, prevResult>>

NextLedger == LedgerLoad \/ LedgerWarn \/ LedgerUpdate \/ LedgerReview

SpecLedger == InitLedger /\ [][NextLedger]_vars

(***************************************************************************)
(* One run over two accounts with caching enabled, in which any of the     *)
(* writes of the enriched cache may fail; every source answers, the        *)
(* estimate source apart, whose token is not captured.  world.saved is the *)
(* set of accounts with a write of the enriched cache that succeeded.      *)
(***************************************************************************)
InitShared ==
  /\ pc = "idle"
  /\ exitCode = 0
  /\ ReviewIdle /\ MergeIdle /\ FilesEmpty /\ SinkIdle
  /\ RunIdle /\ UserIdle /\ CallsIdle /\ deniedAtStart = {} /\ cachedAtStart = {}
  /\ layersAtStart = NoLayers
  /\ clock = 0
  /\ passesLeft = MaxPasses
  /\ faultsLeft = 0
  /\ world = [saved |-> {}]
  /\ prevResult = <<>>

SharedRun ==
  /\ pc = "idle"
  /\ \E ids \in { t \in TargetLists : Len(t) = MaxPasses } : StartRun(ids, TRUE)
  /\ passesLeft' = 0
  /\ UNCHANGED <<faultsLeft, world, prevResult>>

SharedOwned ==
  \E owned \in OwnedLists : FetchOwned(TRUE, owned) /\ UNCHANGED envVars

SharedStore ==
  \E resp \in StoreResponses : IdentityStep(resp) /\ UNCHANGED envVars

\* the account whose pass is under way has a write that succeeded
SharedSaved(ok) ==
  /\ world' = IF ok THEN [world EXCEPT !.saved = @ \cup {targetIds[userIdx]}] ELSE world
  /\ UNCHANGED <<passesLeft, faultsLeft, prevResult>>

SharedWriteA == \E ok \in BOOLEAN : WriteCacheA(ok) /\ SharedSaved(ok)
SharedWriteB == \E ok \in BOOLEAN : WriteCacheB(ok) /\ SharedSaved(ok)
SharedWriteC == \E ok \in BOOLEAN : WriteCacheC(ok) /\ SharedSaved(ok)

NextShared ==
  \/ SharedRun
  \/ SharedOwned
  \/ SharedStore
  \/ SharedWriteA
  \/ IdemWriteDeleted
  \/ ConvergeSpy
  \/ SharedWriteB
  \/ ConvergeToken
  \/ SharedWriteC
  \/ Merged

SpecShared == InitShared /\ [][NextShared]_vars

(***************************************************************************)
(* upsertAllSteamGames handed any list.  The processSteamGames of          *)
(* steam/index.ts returns combinedGames, the concatenation of the lists of *)
(* the accounts, in which an id owned by two accounts is there twice; the  *)
(* list the sink is handed is the lists of two accounts, one after the     *)
(* other.                                                                  *)
(***************************************************************************)
InitBatch ==
  /\ pc = "sinkFetch"
  /\ exitCode = 0
  /\ remote \in RemoteStores
  /\ steamGameData \in
       { [ i \in DOMAIN ids |-> SinkRecord(ids[i]) ]
         : ids \in { a \o b : a \in OwnedLists, b \in OwnedLists } }
  /\ page = 1
  /\ existingGames = {}
  /\ steamAppIdToDirectusItemIdMap = <<>>
  /\ upsertIdx = 1
  /\ sinkLog = <<>>
  /\ ReviewIdle /\ MergeIdle /\ FilesEmpty /\ PipeIdle

SpecBatch == InitBatch /\ [][NextSink]_vars

(***************************************************************************)
(* The swiper app: the Home page (apps/swiper/pages/index/+Page.tsx).  In  *)
(* this specification world holds the state of the component: whether the  *)
(* URL and the token are set, directusClient (whether there is one),       *)
(* inMemoryGameItems, inMemoryGameItemIndex and isDirectusFormShown.       *)
(***************************************************************************)
\* a load answers with at most MaxQueue items (the page asks for 100)
MaxQueue == 4

\* inMemoryGameItems being null; an item is modelled by its id, 1 or more
NullQueue == <<0>>

\* the queues a load can answer with: the items in any order, none twice
Queues == DistinctSeqs(1..MaxQueue)

\* the view Home renders
HomeView ==
  IF world.isDirectusFormShown \/ ~world.directusUrl \/ ~world.directusToken
  THEN "form"
  ELSE IF world.inMemoryGameItems = NullQueue THEN "empty"
  ELSE "game"

\* the effect on [directusUrl, directusToken]
ConnectionEffect(w) ==
  IF w.directusUrl /\ w.directusToken
  THEN [w EXCEPT !.directusClient = TRUE, !.isDirectusFormShown = FALSE]
  ELSE [w EXCEPT !.directusClient = FALSE]

swiperFrame ==
  <<pc, exitCode, reviewVars, mergeVars, fileVars, sinkVars, pipeVars, passesLeft,
    faultsLeft, prevResult>>

\* the page as it is mounted, the URL and the token read from the local storage
InitSwiper ==
  /\ pc = "idle"
  /\ exitCode = 0
  /\ ReviewIdle /\ MergeIdle /\ FilesEmpty /\ SinkIdle
  /\ RunIdle /\ UserIdle /\ CallsIdle /\ deniedAtStart = {} /\ cachedAtStart = {}
  /\ layersAtStart = NoLayers
  /\ clock = 0
  /\ passesLeft = 0
  /\ faultsLeft = 0
  /\ \E url \in BOOLEAN, token \in BOOLEAN :
       world = ConnectionEffect([ directusUrl |-> url, directusToken |-> token,
                                  directusClient |-> FALSE,
                                  inMemoryGameItems |-> NullQueue,
                                  inMemoryGameItemIndex |-> 0,
                                  isDirectusFormShown |-> TRUE ])
  /\ prevResult = <<>>

\* handleDirectusUrlChange: the field is filled or emptied
EditUrl ==
  /\ HomeView = "form"
  /\ \E set \in BOOLEAN : world' = ConnectionEffect([world EXCEPT !.directusUrl = set])
  /\ UNCHANGED swiperFrame

\* handleDirectusTokenChange
EditToken ==
  /\ HomeView = "form"
  /\ \E set \in BOOLEAN : world' = ConnectionEffect([world EXCEPT !.directusToken = set])
  /\ UNCHANGED swiperFrame

\* Save Directus Connection
SaveConnection ==
  /\ HomeView = "form"
  /\ world' = [world EXCEPT !.isDirectusFormShown = FALSE]
  /\ UNCHANGED swiperFrame

\* Change Directus Connection
ChangeConnection ==
  /\ HomeView = "empty"
  /\ world' = [world EXCEPT !.isDirectusFormShown = TRUE]
  /\ UNCHANGED swiperFrame

\* Load up a new queue!: loadGameItems answers with the games of the backlog
LoadQueue ==
  /\ HomeView = "empty"
  /\ world.directusClient
  /\ \E items \in Queues : world' = [world EXCEPT !.inMemoryGameItems = items]
  /\ UNCHANGED swiperFrame

\* Previous
PreviousGame ==
  /\ HomeView = "game"
  /\ world' = IF world.inMemoryGameItemIndex > 0
              THEN [world EXCEPT !.inMemoryGameItemIndex = @ - 1]
              ELSE world
  /\ UNCHANGED swiperFrame

\* Next
NextGame ==
  /\ HomeView = "game"
  /\ world' = IF world.inMemoryGameItemIndex < Len(world.inMemoryGameItems) - 1
              THEN [world EXCEPT !.inMemoryGameItemIndex = @ + 1]
              ELSE world
  /\ UNCHANGED swiperFrame

NextSwiper ==
  \/ EditUrl
  \/ EditToken
  \/ SaveConnection
  \/ ChangeConnection
  \/ LoadQueue
  \/ PreviousGame
  \/ NextGame

SpecSwiper == InitSwiper /\ [][NextSwiper]_vars

(***************************************************************************)
(* Properties.                                                             *)
(***************************************************************************)
\* C1: updateSteamGameInfoCache(E, F), E and F each with unique ids, writes a
\* collection in which every id of F carries F's record (its durable fields),
\* every id of E that is not in F carries E's record unchanged, and no other id
\* appears; no id appears twice.
C1_MergeIsUnionFreshWins ==
  pc = "saved" =>
    /\ AppIdsOf(cacheFile) = AppIdsOf(existingGameInfos) \cup AppIdsOf(newGameInfos)
    /\ Len(cacheFile) = Cardinality(AppIdsOf(cacheFile))
    /\ \A i \in DOMAIN newGameInfos :
         \E j \in DOMAIN cacheFile :
           cacheFile[j] = [newGameInfos[i] EXCEPT !.basicData = NoBasicData]
    /\ \A i \in DOMAIN existingGameInfos :
         existingGameInfos[i].appId \notin AppIdsOf(newGameInfos) =>
           \E j \in DOMAIN cacheFile : cacheFile[j] = existingGameInfos[i]

\* an id in both collections with different records, and an id only in E
C1_Witness ==
  /\ pc = "saved"
  /\ \E i \in DOMAIN existingGameInfos, j \in DOMAIN newGameInfos :
       /\ existingGameInfos[i].appId = newGameInfos[j].appId
       /\ existingGameInfos[i].name # newGameInfos[j].name
  /\ \E i \in DOMAIN existingGameInfos :
       existingGameInfos[i].appId \notin AppIdsOf(newGameInfos)

\* C8: every write for a record whose appId is the Steam_ID of an existing
\* remote item is an update addressed to the internal id of such an item, never
\* a create; a completed run has written every record.
C8_UpdateByLookup ==
  /\ \A i \in DOMAIN sinkLog :
       sinkLog[i].remoteIds # {} =>
         /\ sinkLog[i].op = "update"
         /\ sinkLog[i].target \in sinkLog[i].remoteIds
  /\ pc = "sinkDone" =>
       /\ Len(sinkLog) = Len(steamGameData)
       /\ \A i \in DOMAIN sinkLog : sinkLog[i].appId = steamGameData[i].appId

\* an update addressed to an internal id that is not the appId, while that
\* appId's own number is the internal id of another item
C8_Witness ==
  /\ pc = "sinkDone"
  /\ \E i \in DOMAIN sinkLog :
       /\ sinkLog[i].op = "update"
       /\ sinkLog[i].target # sinkLog[i].appId
       /\ \E k \in DOMAIN remote : remote[k].id = sinkLog[i].appId
  /\ \E i \in DOMAIN sinkLog : sinkLog[i].op = "create"

\* C9: a failed create or update is the last write of the run, and the run
\* ends with exit code 1.
C9_FailFast ==
  \A i \in DOMAIN sinkLog :
    ~sinkLog[i].ok =>
      /\ i = Len(sinkLog)
      /\ pc = "exited"
      /\ exitCode = 1

\* five records, the third write fails: the fourth and fifth are never tried
C9_Witness ==
  /\ Len(steamGameData) = 5
  /\ Len(sinkLog) = 3
  /\ ~sinkLog[3].ok
  /\ sinkLog[1].ok /\ sinkLog[2].ok
  /\ pc = "exited"

\* C10: the category of every pair of counts follows the table: null under 10
\* reviews; Overwhelmingly Positive from 500 reviews and 95%; from 80% Very
\* Positive with 50 reviews or more and Positive with fewer; from 70% Mostly
\* Positive; from 40% Mixed; from 20% Mostly Negative; under 20% Overwhelmingly
\* Negative from 500 reviews, Very Negative from 50, else Negative.
C10_CategoryTable ==
  pc = "reviewed" =>
    LET p == totalPositive
        t == totalPositive + totalNegative
        c == review_category
    IN /\ t < 10 => c = "null"
       /\ (t >= 500 /\ 100 * p >= 95 * t) => c = "Overwhelmingly Positive"
       /\ (t >= 10 /\ 100 * p >= 80 * t /\ ~(t >= 500 /\ 100 * p >= 95 * t)) =>
            c = IF t >= 50 THEN "Very Positive" ELSE "Positive"
       /\ (t >= 10 /\ 100 * p >= 70 * t /\ 100 * p < 80 * t) => c = "Mostly Positive"
       /\ (t >= 10 /\ 100 * p >= 40 * t /\ 100 * p < 70 * t) => c = "Mixed"
       /\ (t >= 10 /\ 100 * p >= 20 * t /\ 100 * p < 40 * t) => c = "Mostly Negative"
       /\ (t >= 500 /\ 100 * p < 20 * t) => c = "Overwhelmingly Negative"
       /\ (t >= 50 /\ t < 500 /\ 100 * p < 20 * t) => c = "Very Negative"
       /\ (t >= 10 /\ t < 50 /\ 100 * p < 20 * t) => c = "Negative"

\* 80 positive of 100 is in the Positive tier
C10_Witness ==
  /\ pc = "reviewed"
  /\ totalPositive = 80
  /\ totalNegative = 20
  /\ review_category = "Very Positive"

\* C2: every id that is in the enriched cache file when a run begins is still
\* in it when the run has ended, whatever the options and the accounts.
C2_CacheNeverDeletes ==
  pc \in {"returned", "crashed"} => cachedAtStart \subseteq AppIdsOf(cacheFile)

\* C3: no run issues a metadata request for an id that was in the denylist file
\* when the run began.
C3_DeniedNeverRequested ==
  \A id \in deniedAtStart : storeRequests[id] = 0

\* C4: every id that is in the denylist file when a run begins is still in it
\* when the run has ended.
C4_DenylistOnlyGrows ==
  pc \in {"returned", "crashed"} => deniedAtStart \subseteq SeqRange(deletedFile)

\* C6: an id owned by the primary account and by another account ends with the
\* record of the primary account, with its hours and last-played time, in
\* either order of the accounts.
C6_PrimaryWins ==
  pc = "returned" =>
    \A i \in DOMAIN combinedGames, j \in DOMAIN combinedGames :
      ( /\ combinedGames[i].appId = combinedGames[j].appId
        /\ combinedGames[i].basicData.isAdmin
        /\ ~combinedGames[j].basicData.isAdmin ) =>
        \E k \in DOMAIN uniqueGames :
          /\ uniqueGames[k] = combinedGames[i]
          /\ uniqueGames[k].basicData.isAdmin
          /\ uniqueGames[k].basicData.hours = combinedGames[i].basicData.hours
          /\ uniqueGames[k].basicData.lastPlayedUnix = combinedGames[i].basicData.lastPlayedUnix
          /\ \A l \in DOMAIN uniqueGames :
               uniqueGames[l].appId = uniqueGames[k].appId => l = k

\* the primary account is processed first, the other account owns the same id
C6_Witness ==
  /\ pc = "returned"
  /\ targetIds = <<"a", "b">>
  /\ \E i \in DOMAIN combinedGames, j \in DOMAIN combinedGames :
       /\ i < j
       /\ combinedGames[i].appId = combinedGames[j].appId
       /\ combinedGames[i].basicData.isAdmin
       /\ ~combinedGames[j].basicData.isAdmin
       /\ combinedGames[j].basicData.hours # combinedGames[i].basicData.hours

\* C7: the list processSteamGames returns is in strictly ascending appId order,
\* so no appId is in it twice.
C7_ResultSortedUnique ==
  pc = "returned" =>
    \A i \in DOMAIN uniqueGames, j \in DOMAIN uniqueGames :
      i < j => uniqueGames[i].appId < uniqueGames[j].appId

\* two accounts' lists that together repeat an id and are not in order
C7_Witness ==
  /\ pc = "returned"
  /\ Len(uniqueGames) = 2
  /\ Len(combinedGames) >= 3
  /\ combinedGames[1].appId > combinedGames[2].appId

EstimatedRecords ==
  { r \in SeqRange(gameInfos) \cup SeqRange(combinedGames) \cup SeqRange(uniqueGames)
          \cup SeqRange(cacheFile) : r.hltb_name # "undefined" }

\* h is a whole number of hours nearest to s seconds
NearestHour(h, s) == 3600 * h - 1800 <= s /\ s <= 3600 * h + 1800

\* h is the whole number of hours nearest to s seconds, a half hour going up
NearestHourHalfUp(h, s) == 3600 * h - 1800 <= s /\ s < 3600 * h + 1800

\* C11 as stated: each stored duration is the source's seconds in hours, rounded
\* to the nearest whole hour, 7199 seconds giving 2 hours and 1800 seconds 0.
C11_NearestHourHalfDown ==
  \A r \in EstimatedRecords :
    /\ NearestHour(r.hltb_hours, world.comp_main)
    /\ NearestHour(r.hltb_hours_extra, world.comp_plus)
    /\ NearestHour(r.hltb_hours_completionist, world.comp_100)
    /\ world.comp_main = 7199 => r.hltb_hours = 2
    /\ world.comp_main = 1800 => r.hltb_hours = 0
    /\ world.comp_plus = 1800 => r.hltb_hours_extra = 0
    /\ world.comp_100 = 1800 => r.hltb_hours_completionist = 0

\* C11: each stored duration (hltb_hours, hltb_hours_extra,
\* hltb_hours_completionist) is the source's seconds in hours, rounded to the
\* nearest whole hour with a half hour going up: 7199 seconds give 2 hours,
\* 1800 seconds give 1 hour and 1799 seconds give 0 hours.
C11_NearestHourHalfUp ==
  \A r \in EstimatedRecords :
    /\ NearestHourHalfUp(r.hltb_hours, world.comp_main)
    /\ NearestHourHalfUp(r.hltb_hours_extra, world.comp_plus)
    /\ NearestHourHalfUp(r.hltb_hours_completionist, world.comp_100)
    /\ world.comp_main = 7199 => r.hltb_hours = 2
    /\ world.comp_main = 1800 => r.hltb_hours = 1
    /\ world.comp_main = 1799 => r.hltb_hours = 0

\* the run returned a record whose three durations came from 7199, 1800 and
\* 1799 seconds
C11_Witness ==
  /\ pc = "returned"
  /\ world = HltbData(7199, 1800, 1799)
  /\ Len(uniqueGames) = 1
  /\ uniqueGames[1].hltb_hours = 2
  /\ uniqueGames[1].hltb_hours_extra = 1
  /\ uniqueGames[1].hltb_hours_completionist = 0

\* the steps of a run that write a cache file
WriteSteps == {"writeA", "writeDeleted", "writeB", "hltbLedger", "writeC"}

\* C12 as stated: whichever cache file is being written (the enriched records,
\* the denylist, the name-mismatch ledger), a failure of the write does not
\* end the run, and the step leaves the records gathered as they are.
C12_SaveFailureIsSwallowed ==
  [][(pc \in WriteSteps) =>
       ( /\ pc' # "crashed"
         /\ exitCode' = exitCode
         /\ IF pc = "writeC"
            THEN combinedGames' = combinedGames \o gameInfos
            ELSE gameInfos' = gameInfos /\ combinedGames' = combinedGames )]_vars

\* processSteamGamesForSingleUser has just loaded the two caches
AfterLoads ==
  \/ pc = "identity" /\ itemIdx = 1
  \/ pc = "writeA" /\ basicSteamGameInfos = <<>>

C14_CacheHasNoTransientLayer ==
  /\ \A i \in DOMAIN cacheFile : cacheFile[i].basicData = NoBasicData
  /\ pc = "returned" =>
       \A i \in DOMAIN uniqueGames :
         /\ uniqueGames[i].basicData # NoBasicData
         /\ uniqueGames[i].basicData.appId = uniqueGames[i].appId

\* a second run returned a record it took from the cache, with the primary
\* account's transient layer, and the cache file holds the record
C14_Witness ==
  /\ pc = "returned"
  /\ clock = 2
  /\ useCache
  /\ cachedAtStart # {}
  /\ Len(uniqueGames) = 1
  /\ uniqueGames[1].appId \in cachedAtStart
  /\ uniqueGames[1].basicData.hours = 10
  /\ uniqueGames[1].appId \in AppIdsOf(cacheFile)

\* C15 as stated: whatever the metadata source answers for an owned item (a
\* 429, a network error, no entry for the id, success false, success true with
\* a payload that is missing or malformed), the identity pass goes on to the
\* next owned item: nothing is raised out of processSteamGamesForSingleUser.
C15_AdapterFailureSkipsItem ==
  [][(pc = "identity") =>
       ( /\ pc' \in {"identity", "writeA"}
         /\ itemIdx' = itemIdx + 1
         /\ exitCode' = exitCode )]_vars

\* C16 as stated: once the estimate layer has counted
\* MAX_HLTB_FAILED_ATTEMPTS consecutive failed requests it issues no further
\* request in the run, every record and field gathered is kept, the cache
\* write that follows the layer happens and the run goes on to return its
\* records: the run does not fail.
C16_CeilingEndsLayerOnly ==
  [][(failedAttempts = MAX_HLTB_FAILED_ATTEMPTS) =>
       ( /\ hltbRequests' = hltbRequests
         /\ pc' # "crashed"
         /\ exitCode' = exitCode
         /\ pc = "hltbLedger" => (pc' = "writeC" /\ gameInfos' = gameInfos)
         /\ pc = "writeC" => (pc' = "merge" /\ combinedGames' = combinedGames \o gameInfos) )]_vars

\* the owned ids of the account being processed
OwnedIds == { basicSteamGameInfos[i].appId : i \in DOMAIN basicSteamGameInfos }

\* C17 as stated: when the identity pass of an account ends, every owned id
\* that has no record in the result set is in the failed list the summary
\* prints, whatever the reason it was skipped for.
C17_EverySkipIsListed ==
  pc = "writeA" =>
    \A id \in OwnedIds : id \in AppIdsOf(gameInfos) \/ id \in SeqRange(failedGameInfos)

\* C18 as stated: an id whose cached record carried the statistics layer, or
\* the estimate layer, when a run began has a cached record that carries the
\* layer when the run has ended, whatever the options and the outcome of the run.
C18_CachedLayersAreKept ==
  pc \in {"returned", "crashed"} =>
    /\ layersAtStart.spy \subseteq LayersOf(cacheFile).spy
    /\ layersAtStart.hltb \subseteq LayersOf(cacheFile).hltb

\* the ids of the denylist, in memory and in its file
Denylisted == SeqRange(knownDeletedAppIds) \cup SeqRange(deletedFile)

\* C19: an id is added to the denylist if and only if the metadata source
\* answered the request for it with an entry whose success is exactly false; a
\* 429, a network error, a body without an entry for the id (and an entry
\* whose success is missing) add nothing.
C19_DenylistOnlySuccessFalse ==
  /\ \A id \in Denylisted : world.store[id].kind = "deleted"
  /\ \A id \in AppIds :
       (storeRequests[id] > 0 /\ world.store[id].kind = "deleted") => id \in Denylisted

\* a run in which the source answered success false for one id, which is in
\* the denylist file, and failed the request for the other, which is not
C19_Witness ==
  /\ pc = "returned"
  /\ world.store[1].kind = "deleted"
  /\ world.store[2].kind = "throw"
  /\ storeRequests[1] > 0
  /\ storeRequests[2] > 0
  /\ deletedFile = <<1>>

C21_FirstOccurrenceWins ==
  /\ [](\A i \in DOMAIN gameInfos, j \in DOMAIN gameInfos :
          gameInfos[i].appId = gameInfos[j].appId => i = j)
  /\ [][(/\ pc = "identity"
         /\ basicSteamGameInfos[itemIdx].appId \in AppIdsOf(gameInfos)) =>
          ( /\ storeRequests' = storeRequests
            /\ gameInfos' = gameInfos
            /\ failedGameInfos' = failedGameInfos
            /\ knownDeletedAppIds' = knownDeletedAppIds
            /\ pc' \in {"identity", "writeA"} )]_vars

\* the owned list named one id twice: the source was asked once, the result
\* set holds one record, whose layer is the first owned item
C21_Witness ==
  /\ pc = "writeA"
  /\ Len(basicSteamGameInfos) = 2
  /\ basicSteamGameInfos[1].appId = basicSteamGameInfos[2].appId
  /\ Len(gameInfos) = 1
  /\ gameInfos[1].basicData = basicSteamGameInfos[1]
  /\ storeRequests[gameInfos[1].appId] = 1
\* the owned item the identity pass is at
CurrentAppId == basicSteamGameInfos[itemIdx].appId

\* C22: for an owned item whose id is both in the loaded cached records and in
\* the loaded denylist (and not yet in the result set), the identity pass
\* appends the cached record, with the owned item as its transient layer,
\* issues no metadata request and adds nothing to the failed list; a step that
\* lists an id as failed without a request is a step for a denylisted id with
\* no cached record.
C22_CachedBeatsDenylist ==
  [][(pc = "identity") =>
       ( /\ ( /\ CurrentAppId \in AppIdsOf(cachedGameInfos)
              /\ CurrentAppId \in SeqRange(knownDeletedAppIds)
              /\ CurrentAppId \notin AppIdsOf(gameInfos) ) =>
              /\ storeRequests' = storeRequests
              /\ failedGameInfos' = failedGameInfos
              /\ knownDeletedAppIds' = knownDeletedAppIds
              /\ Len(gameInfos') = Len(gameInfos) + 1
              /\ \E j \in DOMAIN cachedGameInfos :
                   gameInfos'[Len(gameInfos')] =
                     [cachedGameInfos[j] EXCEPT !.basicData = basicSteamGameInfos[itemIdx]]
         /\ (failedGameInfos' # failedGameInfos /\ storeRequests' = storeRequests) =>
              /\ CurrentAppId \in SeqRange(knownDeletedAppIds)
              /\ CurrentAppId \notin AppIdsOf(cachedGameInfos) )]_vars

\* the identity pass reused the cached record of an owned id that the denylist
\* names too: no request, nothing listed as failed
C22_Witness ==
  /\ pc = "writeA"
  /\ useCache
  /\ Len(gameInfos) = 1
  /\ gameInfos[1].appId \in AppIdsOf(cachedGameInfos)
  /\ gameInfos[1].appId \in SeqRange(knownDeletedAppIds)
  /\ gameInfos[1].spy_update_timestamp = 1
  /\ failedGameInfos = <<>>
  /\ storeRequests = NoRequests
\* the places of combinedGames that hold a record of the id
PlacesOf(appId) == { i \in DOMAIN combinedGames : combinedGames[i].appId = appId }

SpyStamped == gameInfos[itemIdx].spy_update_timestamp # 0
HltbStamped == gameInfos[itemIdx].last_hltb_update_timestamp # 0

\* the ledger marks the record the estimate layer is at as explicitly dissimilar
MarkedDissimilar ==
  IsExplicitlyDissimilar(gameInfos[itemIdx],
    loadDissimilarGamesCache(fileStatus["dissimilar"],
                             gameInfos[itemIdx].appId \in world.ledgerNo))

C25_AttemptLeavesTimestamp ==
  [][ /\ (pc = "spy" /\ spyRequests' # spyRequests) =>
           gameInfos'[itemIdx].spy_update_timestamp # 0
      /\ (pc = "hltb" /\ hltbRequests' # hltbRequests) =>
           gameInfos'[itemIdx].last_hltb_update_timestamp # 0
      /\ (pc = "writeB" /\ cacheFile' # cacheFile) =>
           \A i \in DOMAIN cacheFile' :
             spyRequests[cacheFile'[i].appId] > 0 =>
               cacheFile'[i].spy_update_timestamp # 0
      /\ (pc = "writeC" /\ cacheFile' # cacheFile) =>
           \A i \in DOMAIN cacheFile' :
             hltbRequests[cacheFile'[i].appId] > 0 =>
               cacheFile'[i].last_hltb_update_timestamp # 0 ]_vars
\* C26: in the estimate layer the delay before each request is
\* HLTB_API_SLEEP_MS_BASE (1500 ms) plus 1000 ms times the count of
\* consecutive failures; the count goes up by one with every failed request,
\* back to 0 with every request that succeeds, is left as it is by a record
\* that is skipped, and stays within 0..MAX_HLTB_FAILED_ATTEMPTS: when it
\* reaches the ceiling the layer stops and issues no further request.
C26_DelayFollowsFailures ==
  /\ [](failedAttempts \in 0..MAX_HLTB_FAILED_ATTEMPTS)
  /\ [][ /\ (pc = "hltb") =>
              IF hltbRequests' = hltbRequests
              THEN failedAttempts' = failedAttempts /\ sleptMs' = sleptMs
              ELSE /\ sleptMs' = 1500 + 1000 * failedAttempts
                   /\ failedAttempts' =
                        IF gameInfos'[itemIdx].last_hltb_update_timestamp = clock
                        THEN 0 ELSE failedAttempts + 1
                   /\ failedAttempts' = MAX_HLTB_FAILED_ATTEMPTS => pc' = "hltbLedger"
                   /\ failedAttempts < MAX_HLTB_FAILED_ATTEMPTS
         /\ (failedAttempts = MAX_HLTB_FAILED_ATTEMPTS) => hltbRequests' = hltbRequests
       ]_vars

\* the layer stopped at the ceiling: the tenth failed request in a row came
\* after a delay of 10500 ms, past a record that was skipped
C26_Witness ==
  /\ pc = "hltbLedger"
  /\ failedAttempts = MAX_HLTB_FAILED_ATTEMPTS
  /\ sleptMs = 10500
  /\ hltbRequests[2] = 0
  /\ hltbRequests[1] = 1
  /\ hltbRequests[3] = 1
  /\ gameInfos[1].last_hltb_update_timestamp = clock
\* C27 as stated: after a request of the estimate layer for an item has failed
\* below the ceiling and the token has been recaptured, the layer turns to the
\* same item again, so that the item gets a request with the new token within
\* the run; when the layer has gone through its records without stopping, no
\* record is left with one failed request only.
C27_FailedItemIsRetried ==
  [][ /\ ( /\ pc = "hltb"
           /\ hltbRequests' # hltbRequests
           /\ failedAttempts' = failedAttempts + 1
           /\ tokenCalls' = tokenCalls + 1
           /\ pc' = "hltb" ) =>
           gameInfos'[itemIdx'].appId = gameInfos[itemIdx].appId
      /\ (pc = "hltbLedger" /\ itemIdx = Len(gameInfos) + 1 /\ failedAttempts = 0) =>
           \A i \in DOMAIN gameInfos :
             ( /\ hltbRequests[gameInfos[i].appId] > 0
               /\ gameInfos[i].last_hltb_update_timestamp # clock ) =>
               hltbRequests[gameInfos[i].appId] >= 2 ]_vars
\* the steps of an account that follow the writes of its identity pass, and
\* those that follow the write of its statistics layer
AfterIdentityWrites == pc \in {"spy", "writeB", "hltbToken", "hltb", "hltbLedger", "writeC"}
AfterStatisticsWrite == pc \in {"hltbToken", "hltb", "hltbLedger", "writeC"}

\* no request and no write has failed so far
NoFault == faultsLeft = MaxFaults

\* the fields of the statistics layer
SpyFields(r) ==
  <<r.spy_update_timestamp, r.review_category, r.total_positive_reviews,
    r.total_negative_reviews, r.total_reviews>>

\* C28 as stated: in every state of a run, which the process may be terminated
\* in, the files hold every record and every denylist entry of each identity
\* pass whose writes are done, every field of a statistics layer whose write
\* is done, and every field of the accounts that are done with; no step of a
\* run takes an id out of either file.  Writes that fail are left aside.
C28_TerminationKeepsCompletedWork ==
  /\ []( NoFault =>
           /\ AfterIdentityWrites =>
                /\ AppIdsOf(gameInfos) \subseteq AppIdsOf(cacheFile)
                /\ SeqRange(knownDeletedAppIds) \subseteq SeqRange(deletedFile)
           /\ AfterStatisticsWrite =>
                \A i \in DOMAIN gameInfos :
                  \E j \in DOMAIN cacheFile :
                    /\ cacheFile[j].appId = gameInfos[i].appId
                    /\ SpyFields(cacheFile[j]) = SpyFields(gameInfos[i])
           /\ \A i \in DOMAIN combinedGames :
                \E j \in DOMAIN cacheFile : cacheFile[j] = StripBasicData(combinedGames[i]) )
  /\ [][ (NoFault' /\ pc \notin {"idle", "returned", "crashed"}) =>
           /\ AppIdsOf(cacheFile) \subseteq AppIdsOf(cacheFile')
           /\ SeqRange(deletedFile) \subseteq SeqRange(deletedFile') ]_vars

\* C29: at the post-layer write of the statistics layer and of the estimate
\* layer, a record another process put into the cache file while the layer
\* ran is still in the file when its id is outside the account's result set,
\* and has given way to the pipeline's record when its id is in the result set
C29_ExternalRecordOutlivesLayerWrite ==
  [][ (pc \in {"writeB", "writeC"}) =>
        \A appId \in world.added :
          IF appId \in AppIdsOf(gameInfos)
          THEN /\ ExternalRecord(appId) \notin SeqRange(cacheFile')
               /\ \E i \in DOMAIN gameInfos :
                    /\ gameInfos[i].appId = appId
                    /\ StripBasicData(gameInfos[i]) \in SeqRange(cacheFile')
          ELSE ExternalRecord(appId) \in SeqRange(cacheFile') ]_vars

\* the estimate layer's write is done; during the layer the other process had
\* written a record for an id of the result set and one for an id outside it
C29_Witness ==
  /\ pc = "merge"
  /\ world.settled = {1, ExternalAppId}
  /\ ExternalRecord(ExternalAppId) \in SeqRange(cacheFile)
  /\ ExternalRecord(1) \notin SeqRange(cacheFile)

\* C30: fetchExistingGames ends for every remote store; it asks for the pages
\* at the offsets 0, 1000, 2000, ..., at most DIRECTUS_MAX_PAGES of them; an
\* empty page ends it, a page with items below the cap does not; and when it
\* returns, its index holds every item of the pages it was answered
C30_FetchExistingGamesEnds ==
  /\ <>(pc # "sinkFetch")
  /\ [](/\ Len(world.offsets) <= DIRECTUS_MAX_PAGES
        /\ \A i \in DOMAIN world.offsets :
             world.offsets[i] = (i - 1) * DIRECTUS_ITEMS_PAGE_SIZE
        /\ pc = "sinkFetched" => world.seen \subseteq existingGames)
  /\ [][ (pc' # "sinkThrown") =>
           pc' = IF world'.answer = <<>> \/ Len(world'.offsets) = DIRECTUS_MAX_PAGES
                 THEN "sinkFetched" ELSE "sinkFetch" ]_vars

\* the store still had items at the last page the loop may ask for
C30_Witness ==
  /\ pc = "sinkFetched"
  /\ Len(world.offsets) = DIRECTUS_MAX_PAGES
  /\ world.answer # <<>>
  /\ Cardinality(existingGames) = DIRECTUS_MAX_PAGES * world.width

\* C31: an update the sink issues for an existing remote item sets the fields
\* of the fixed projection to the record's values, and leaves every other
\* field of the item, and every other item, as the remote store held it
C31_UpdateWritesProjectionOnly ==
  [][ (pc = "upsert" /\ sinkLog'[Len(sinkLog')].op = "update"
         /\ sinkLog'[Len(sinkLog')].ok) =>
        LET gameData == steamGameData[upsertIdx]
            target == sinkLog'[Len(sinkLog')].target
            data == DirectusData(gameData)
        IN \A k \in DOMAIN remote :
             IF remote[k].id = target
             THEN \A f \in DOMAIN remote[k] :
                    remote'[k][f] = IF f \in ProjectionFields THEN data[f]
                                    ELSE remote[k][f]
             ELSE remote'[k] = remote[k] ]_vars

\* C32: captureHltbAuthToken always settles, with the token when the search
\* request was observed and with an error otherwise, after no more than the
\* 30 seconds of its timer, and it leaves no browser open; when it settles
\* with an error the layer makes no estimate request, changes no record and
\* the pipeline goes on
C32_CaptureSettlesBrowserClosed ==
  /\ (world.at = "launch") ~> (world.at = "settled")
  /\ [](world.waitedMs <= CaptureTimeoutMs)
  /\ [](world.at \in {"settled", "returned"} =>
          /\ world.outcome # "pending"
          /\ world.browser # "open")
  /\ []((world.at = "returned" /\ world.outcome # "token") =>
          /\ hltbRequests = NoRequests
          /\ exitCode = 0)
  /\ [][ (world.at = "settled" /\ world'.at = "returned"
            /\ world.outcome # "token") =>
           /\ gameInfos' = gameInfos
           /\ pc' = "writeC" ]_vars

\* the owned ids of the account that the denylist file does not hold
OwnedNotDenylisted ==
  SeqRange(world.owned) \ SeqRange(loadCacheFile(fileStatus["knownDeleted"], deletedFile))

\* the ownership source has told the owned list, and the cache file holds a
\* record for every owned id that is not denylisted
Converged ==
  /\ world.owned # UnaskedList
  /\ OwnedNotDenylisted \subseteq
       AppIdsOf(loadCacheFile(fileStatus["gameInfo"], cacheFile))

\* C33: under repeated runs with caching enabled and sources that fail only
\* finitely often, the cache file comes to hold a record for every owned id
\* that is not denylisted and keeps holding one; and once it does, the
\* identity pass makes no request to the metadata source
C33_RunsConverge ==
  /\ <>[]Converged
  /\ [][ (Converged /\ pc = "identity") => storeRequests' = storeRequests ]_vars

\* after a run in which the metadata source failed, a later run has fetched
\* the missing record, and the run after that has made no request
C33_Witness ==
  /\ Converged
  /\ faultsLeft = 0
  /\ passesLeft = 0
  /\ pc = "returned"
  /\ OwnedNotDenylisted # {}
  /\ storeRequests = NoRequests

\* C34: a record the identity layer makes from an answer of the metadata
\* source carries the id of the owned item the request was made for, whatever
\* id the payload reports; every record of the result set has the id of its
\* owned item, and the identity pass writes it to the cache under that id
C34_RecordCarriesOwnedId ==
  /\ [](\A i \in DOMAIN gameInfos :
          /\ gameInfos[i].appId = gameInfos[i].basicData.appId
          /\ gameInfos[i].appId \in AppIdsOf(basicSteamGameInfos))
  /\ [][ (pc = "identity" /\ storeRequests' # storeRequests
            /\ Len(gameInfos') > Len(gameInfos)) =>
           gameInfos'[Len(gameInfos')].appId = basicSteamGameInfos[itemIdx].appId ]_vars
  /\ [][ (pc = "writeA" /\ cacheFile' # cacheFile) =>
           AppIdsOf(gameInfos) \subseteq AppIdsOf(cacheFile') ]_vars

\* the record of owned item 1 was made from a payload that reports another id,
\* and the cache file holds it under 1
C34_Witness ==
  /\ pc = "spy"
  /\ storeRequests[1] = 1
  /\ StorePayload.steam_appid # 1
  /\ 1 \in AppIdsOf(gameInfos)
  /\ 1 \in AppIdsOf(cacheFile)
  /\ StorePayload.steam_appid \notin AppIdsOf(cacheFile)

\* C35: from an empty cache and after any runs, the enriched cache file lists
\* its records in strictly ascending appId order, so no appId is in it twice
C35_CacheFileAscending ==
  \A i, j \in DOMAIN cacheFile : i < j => cacheFile[i].appId < cacheFile[j].appId

\* an account whose owned list names 2 before 1: the file written for it
\* holds both records
C35_Witness ==
  /\ pc = "spy"
  /\ Len(basicSteamGameInfos) = 2
  /\ basicSteamGameInfos[1].appId = 2
  /\ basicSteamGameInfos[2].appId = 1
  /\ Len(gameInfos) = 2
  /\ Len(cacheFile) = 2

(***************************************************************************)
(* C36: with skip set, a run asks nothing of the ownership source and      *)
(* nothing of the metadata source; the owned list of each account is the   *)
(* one in its owned-games cache file, and every record of the run is a     *)
(* record of the enriched cache; with skip set and cache use disabled the  *)
(* run has no record at all.                                               *)
(***************************************************************************)
C36_SkipReadsCachesOnly ==
  (world.skip /\ pc # "idle") =>
    /\ ownedCalls = 0
    /\ storeRequests = NoRequests
    /\ pc \in {"identity", "writeA", "writeDeleted"} =>
         basicSteamGameInfos =
           [ i \in DOMAIN world.ownedFile[targetIds[userIdx]] |->
               OwnedItemRef(targetIds[userIdx], world.ownedFile[targetIds[userIdx]][i]) ]
    /\ \A r \in SeqRange(gameInfos) \cup SeqRange(combinedGames) :
         /\ r.appId \in cachedAtStart
         /\ StripBasicData(r) \in SeqRange(cacheFile)
    /\ ~useCache => (gameInfos = <<>> /\ combinedGames = <<>>)

\* a run with skip set has returned a cached record and has passed over an
\* owned id that is neither cached nor denylisted
C36_Witness ==
  /\ pc = "returned"
  /\ world.skip
  /\ combinedGames # <<>>
  /\ \E a \in SeqRange(targetIds) :
       \E id \in SeqRange(world.ownedFile[a]) : id \notin cachedAtStart \cup deniedAtStart

(***************************************************************************)
(* C37: the ledger written back holds, for every id that had an entry when *)
(* the ledger was loaded, one line, and that line reads as the entry       *)
(* loaded (both names and the status), whatever the warnings of the run;   *)
(* every other line is of an id a warning of the run names, and it has the *)
(* default status of the ledger's mode.                                    *)
(***************************************************************************)
C37_LedgerEntriesKept ==
  pc = "ledgerWritten" =>
    LET written == LoadedLedger(world.file)
        warned == { world.list[i].appId : i \in DOMAIN world.list }
    IN /\ DOMAIN written = DOMAIN world.cache \cup warned
       /\ \A i, j \in DOMAIN world.file :
            world.file[i].appId = world.file[j].appId => i = j
       /\ \A i \in DOMAIN world.file :
            LET appId == world.file[i].appId
            IN IF appId \in DOMAIN world.cache
               THEN /\ world.file[i] = FormatLine(appId, world.cache[appId])
                    /\ written[appId] = world.cache[appId]
               ELSE /\ appId \in warned
                    /\ written[appId].status = DefaultStatus(world.mode)

\* a ledger was written by a run that warned about an id whose entry the user
\* had set to "no", with other names than the entry's
C37_Witness ==
  /\ pc = "ledgerWritten"
  /\ \E i \in DOMAIN world.list :
       /\ world.list[i].appId \in DOMAIN world.cache
       /\ world.cache[world.list[i].appId].status = "no"
       /\ world.cache[world.list[i].appId].gameInfoName # world.list[i].gameInfoName
  /\ \E i \in DOMAIN world.list : world.list[i].appId \notin DOMAIN world.cache

\* the step is a lookup of the id that the metadata source answers with data
LookupSucceeds(appId) ==
  /\ storeRequests'[appId] = storeRequests[appId] + 1
  /\ appId \in AppIdsOf(gameInfos')

\* the accounts of the run whose pass is over
EarlierAccounts == { targetIds[k] : k \in 1..(userIdx - 1) }

C39_OneCreatePerId ==
  \A i, j \in DOMAIN sinkLog :
    (/\ sinkLog[i].op = "create"
     /\ sinkLog[j].op = "create"
     /\ sinkLog[i].appId = sinkLog[j].appId) => i = j

\* C40 as stated: whenever the game view is rendered, the current index
\* refers to an item of the loaded queue.
C40_IndexInQueue ==
  HomeView = "game" =>
    /\ 0 <= world.inMemoryGameItemIndex
    /\ world.inMemoryGameItemIndex < Len(world.inMemoryGameItems)

=============================================================================
